---- MODULE Spec2Model ----
(***************************************************************************)
(* Model of the tool-resolution and invocation layer of the MCP Toolbox Go *)
(* SDK (core package and the versioned MCP transports).                    *)
(*                                                                         *)
(* Two specifications share this module:                                   *)
(*   Spec      the MCP transport (BaseMcpTransport + McpTransport of       *)
(*             v2024-11-05 and v2025-03-26): concurrent callers, the       *)
(*             sync.Once handshake, the requests put on the wire;          *)
(*   SpecTool  the tool descriptors (ToolboxTool): LoadTool, LoadToolset,  *)
(*             ToolFrom over a heap of Go slices and maps, so that         *)
(*             aliasing between descriptors is something the model can     *)
(*             get wrong.                                                  *)
(***************************************************************************)
EXTENDS Integers, Sequences, FiniteSets, TLC

VARIABLES
    \* ---- transport (Spec) ----
    sessionBearing,   \* TRUE: v20250326.McpTransport, FALSE: v20241105.McpTransport
    initOnce,         \* BaseMcpTransport.initOnce: "idle" | "running" | "done"
    initErr,          \* BaseMcpTransport.initErr
    sessionId,        \* McpTransport.sessionId (v20250326)
    ServerVersion,    \* BaseMcpTransport.ServerVersion
    callers,          \* one record per goroutine calling into the transport
    wire,             \* the HTTP requests handed to the server, in order
    initResult,       \* the hook's local `result` while the handshake runs
    hookRuns,         \* ghost: number of executions of HandshakeHook
    ensureSeen,       \* ghost: the errors EnsureInitialized has returned so far
    lastReturn,       \* ghost: the last call that returned, and what it returned
    calls,            \* ghost: number of transport calls started
    \* ---- tool descriptors (SpecTool) ----
    heap,             \* the Go heap: the backing stores of slices and maps, by address
    tools,            \* every *ToolboxTool built so far (fields are heap addresses)
    defaultToolOptions, \* ToolboxClient.defaultToolOptions
    lastOp            \* ghost: the last LoadTool / LoadToolset / ToolFrom call and its result

transportVars == <<sessionBearing, initOnce, initErr, sessionId, ServerVersion,
                   callers, wire, initResult, hookRuns, ensureSeen, lastReturn,
                   calls>>

toolVars == <<heap, tools, defaultToolOptions, lastOp>>

vars == <<transportVars, toolVars>>

(***************************************************************************)
(* Bounds                                                                  *)
(***************************************************************************)
NumCallers == 2
MaxCalls == 2

Callers == 1..NumCallers

(***************************************************************************)
(* Errors are chains of messages (fmt.Errorf("...: %w", err)); <<>> is nil. *)
(***************************************************************************)
Nil == <<>>
Err(msg) == <<msg>>
Wrap(msg, e) == <<msg>> \o e

ProtocolVersion == IF sessionBearing THEN "2025-03-26" ELSE "2024-11-05"

Ops == {"EnsureInitialized", "ListTools", "GetTool", "InvokeTool"}

(***************************************************************************)
(* What the HTTP client can come back with.                                *)
(***************************************************************************)
NetFail == [net |-> FALSE, status |-> 0, body |-> "none", result |-> <<>>]
Status(code) == [net |-> TRUE, status |-> code, body |-> "none", result |-> <<>>]
Body(kind) == [net |-> TRUE, status |-> 200, body |-> kind, result |-> <<>>]
Result(r) == [net |-> TRUE, status |-> 200, body |-> "result", result |-> r]

InitializeResults ==
    [pv : {"2024-11-05", "2025-03-26", "9999-01-01"}, tools : BOOLEAN,
     sid : {"", "s1", "s2"}, version : {"1.0.0"}]

NoResult == [pv |-> "", tools |-> FALSE, sid |-> "", version |-> ""]

InitializeResponses ==
    {NetFail, Status(500), Status(202), Body("badjson"), Body("rpcerror")}
        \cup {Result(r) : r \in InitializeResults}

NotificationResponses ==
    {NetFail, Status(200), Status(202), Status(204), Status(500)}

Text(t) == [type |-> "text", text |-> t]
Image(t) == [type |-> "image", text |-> t]

ListResults == {<<>>, <<"toolA">>, <<"toolA", "">>, <<"toolB", "toolA">>}
CallResults ==
    {[isError |-> TRUE, content |-> <<>>],
     [isError |-> FALSE, content |-> <<>>],
     [isError |-> FALSE, content |-> <<Text(<<"A", " ">>), Image(<<"b">>), Text(<<"B">>)>>]}

RPCResponses(method) ==
    {NetFail, Status(500), Status(202), Body("rpcerror")}
        \cup {Result(r) : r \in IF method = "tools/list" THEN ListResults ELSE CallResults}

(***************************************************************************)
(* doRPC: the error of one HTTP exchange, from the status and the body.    *)
(* hasDest is `dest != nil` (a request), FALSE for a notification.         *)
(***************************************************************************)
doRPC(resp, hasDest) ==
    IF ~resp.net THEN Wrap("http request failed", Err("transport"))
    ELSE IF resp.status = 200 THEN
        IF ~hasDest THEN Nil
        ELSE IF resp.body = "badjson" THEN Err("response unmarshal failed")
        ELSE IF resp.body = "rpcerror" THEN Err("MCP request failed with code")
        ELSE Nil
    ELSE IF resp.status \in {202, 204} /\ ~hasDest THEN Nil
    ELSE Err("API request failed with status")

\* http.Client.Do with a context that is already cancelled: nothing is sent.
ctxErr == Wrap("http request failed", Err("context canceled"))

(***************************************************************************)
(* sendRequest / sendNotification: the Mcp-Session-Id put into the params  *)
(* ("" when none is put). v20241105 never injects one.                     *)
(***************************************************************************)
sendRequestSession_listOnly(method, marshals) ==
    IF sessionBearing /\ method = "tools/list" /\ sessionId # "" /\ marshals
    THEN sessionId ELSE ""

sendRequestSession(method, marshals) ==
    IF sessionBearing /\ method # "initialize" /\ sessionId # "" /\ marshals
    THEN sessionId ELSE ""

sendNotificationSession ==
    IF sessionBearing /\ sessionId # "" THEN sessionId ELSE ""

(***************************************************************************)
(* initializeSession after the initialize response: the checks, in order.  *)
(***************************************************************************)
versionCheck(result) ==
    IF result.pv # ProtocolVersion THEN Err("MCP version mismatch") ELSE Nil

capabilitiesCheck_skipped(result) == Nil

capabilitiesCheck(result) ==
    IF ~result.tools THEN Err("server does not support the 'tools' capability") ELSE Nil

sessionCheck(result) ==
    IF sessionBearing /\ result.sid = ""
    THEN Err("server did not return a Mcp-Session-Id during initialization") ELSE Nil

handshakeChecks_sessionFirst(result) ==
    IF sessionCheck(result) # Nil THEN sessionCheck(result)
    ELSE IF capabilitiesCheck(result) # Nil THEN capabilitiesCheck(result)
    ELSE versionCheck(result)

handshakeChecks(result) ==
    IF versionCheck(result) # Nil THEN versionCheck(result)
    ELSE IF capabilitiesCheck(result) # Nil THEN capabilitiesCheck(result)
    ELSE sessionCheck(result)

(***************************************************************************)
(* InvokeTool: concatenation of the text blocks, "null" when empty.        *)
(***************************************************************************)
RECURSIVE concatText_allKinds(_)
concatText_allKinds(content) ==
    IF content = <<>> THEN <<>>
    ELSE Head(content).text \o concatText_allKinds(Tail(content))

RECURSIVE concatText(_)
concatText(content) ==
    IF content = <<>> THEN <<>>
    ELSE (IF Head(content).type = "text" THEN Head(content).text ELSE <<>>)
            \o concatText(Tail(content))

invokeOutput(content) ==
    IF concatText(content) = <<>> THEN <<"n", "u", "l", "l">> ELSE concatText(content)

(***************************************************************************)
(* A caller at rest. The headers of a call are nil or hold one token source, *)
(* for the header HeaderName, that gives a token or fails.                 *)
(***************************************************************************)
Idle == [pc |-> "idle", op |-> "none", arg |-> "", ctx |-> "live", hdr |-> "nil",
         argsOK |-> TRUE, late |-> FALSE, inflight |-> FALSE, err |-> Nil, req |-> 0]

\* What the last call returned, with its name argument and the result of the
\* response it read (NoList when it read none).
NoList == <<"none">>
NoReturn == [op |-> "none", arg |-> "", val |-> <<>>, err |-> Nil, result |-> NoList]

\* The arguments a call is made with: the operation, the state of its context,
\* its header token sources (nil, resolving, failing) and whether its
\* arguments marshal to JSON.
In(op, arg, ctx, hdr, argsOK) ==
    [op |-> op, arg |-> arg, ctx |-> ctx, hdr |-> hdr, argsOK |-> argsOK]
\* arg is the toolset name of ListTools and the tool name of GetTool and
\* InvokeTool.
CallInputs ==
    {In("EnsureInitialized", "", ctx, "nil", TRUE) : ctx \in {"live", "cancelled"}}
      \cup {In("ListTools", "", "live", hdr, TRUE) : hdr \in {"nil", "ok", "fail"}}
      \cup {In("ListTools", "", "cancelled", "nil", TRUE), In("ListTools", "ts", "live", "nil", TRUE)}
      \cup {In("GetTool", "toolA", "live", hdr, TRUE) : hdr \in {"nil", "ok", "fail"}}
      \cup {In("GetTool", "toolZ", "live", "nil", TRUE)}
      \cup {In("InvokeTool", "toolA", "live", hdr, TRUE) : hdr \in {"nil", "ok", "fail"}}
      \cup {In("InvokeTool", "toolA", "live", "nil", FALSE)}

InitTransport ==
    /\ sessionBearing \in BOOLEAN
    /\ initOnce = "idle"
    /\ initErr = Nil
    /\ sessionId = ""
    /\ ServerVersion = ""
    /\ callers = [c \in Callers |-> Idle]
    /\ wire = <<>>
    /\ initResult = NoResult
    /\ hookRuns = 0
    /\ ensureSeen = {}
    /\ lastReturn = NoReturn
    /\ calls = 0

(***************************************************************************)
(* sync.Once.Do: the function runs only for the first caller; the others   *)
(* wait for it to finish.                                                  *)
(***************************************************************************)
onceRuns_unguarded == initOnce # "done"
onceRuns_retry == initOnce = "idle" \/ (initOnce = "done" /\ initErr # Nil)
onceRuns == initOnce = "idle"

onceReturns_nowait == initOnce # "idle"
onceReturns_onSuccess == initOnce = "done" /\ initErr = Nil
onceReturns == initOnce = "done"

\* EnsureInitialized: return b.initErr
ensureResult_nil == Nil
ensureResult == initErr

\* A caller enters ListTools / GetTool / InvokeTool / EnsureInitialized.
Call(c) ==
    /\ callers[c].pc = "idle"
    /\ calls < MaxCalls
    /\ \E in \in CallInputs :
        callers' = [callers EXCEPT ![c] =
            [Idle EXCEPT !.pc = "ensure", !.op = in.op, !.arg = in.arg, !.ctx = in.ctx,
                         !.hdr = in.hdr,
                         !.argsOK = in.argsOK, !.late = (initOnce = "done"),
                         !.inflight = (initOnce = "running")]]
    /\ calls' = calls + 1
    /\ UNCHANGED toolVars
    /\ UNCHANGED <<lastReturn, sessionBearing, initOnce, initErr, sessionId, ServerVersion, wire,
                   initResult, hookRuns, ensureSeen>>

\* EnsureInitialized: b.initOnce.Do(...), this caller is the one that runs the hook.
OnceDoRun(c) ==
    /\ callers[c].pc = "ensure"
    /\ onceRuns
    /\ initOnce' = "running"
    /\ hookRuns' = hookRuns + 1
    /\ callers' = [callers EXCEPT ![c].pc = "initSend"]
    /\ UNCHANGED toolVars
    /\ UNCHANGED <<lastReturn, sessionBearing, initErr, sessionId, ServerVersion, wire, initResult,
                   ensureSeen, calls>>

\* EnsureInitialized: Do returns without running anything; return b.initErr.
OnceDoReturn(c) ==
    /\ callers[c].pc = "ensure"
    /\ onceReturns
    /\ callers' = [callers EXCEPT ![c].pc = "ensured", ![c].err = ensureResult]
    /\ ensureSeen' = ensureSeen \cup {ensureResult}
    /\ UNCHANGED toolVars
    /\ UNCHANGED <<lastReturn, sessionBearing, initOnce, initErr, sessionId, ServerVersion, wire,
                   initResult, hookRuns, calls>>

\* The closure given to Do ends: b.initErr = <hook result>, Once is done, and
\* EnsureInitialized returns b.initErr to the caller that ran it.
hookReturn(c, e) ==
    /\ initErr' = e
    /\ initOnce' = "done"
    /\ callers' = [callers EXCEPT ![c].pc = "ensured", ![c].err = e, ![c].req = 0]
    /\ ensureSeen' = ensureSeen \cup {e}

\* A request handed to the HTTP client: its method, the Mcp-Session-Id in its
\* params ("" for none), whether it carries resolved header tokens, and how
\* the exchange ended in doRPC ("pending" while it is in flight).
Sent(method, sid, hdr) ==
    [method |-> method, sid |-> sid, hdr |-> hdr, done |-> "pending", url |-> ""]

\* The request URL is the base URL with the toolset name appended.
SentTo(url, method, sid, hdr) == [Sent(method, sid, hdr) EXCEPT !.url = url]

\* Caller c's request in flight is answered.
Answered(c, e) == [wire EXCEPT ![callers[c].req].done = IF e = Nil THEN "ok" ELSE "fail"]

\* The context the hook runs with: the closure given to Do holds the ctx of
\* the EnsureInitialized call that runs it.
hookCtx_anyCaller(c) ==
    IF \E d \in DOMAIN callers : callers[d].pc # "idle" /\ callers[d].ctx = "cancelled"
    THEN "cancelled" ELSE callers[c].ctx

hookCtx(c) == callers[c].ctx

\* The headers of the hook's requests: initializeSession passes nil to
\* sendRequest and sendNotification passes nil to doRPC, whatever headers the
\* call that runs the hook was given.
hookHeaders_callers(c) == callers[c].hdr

hookHeaders(c) == "nil"

\* initializeSession: sendRequest(ctx, BaseURL, "initialize", params, nil, &result)
HookSendInitialize(c) ==
    /\ callers[c].pc = "initSend"
    /\ IF hookCtx(c) = "cancelled"
       THEN /\ hookReturn(c, ctxErr)
            /\ UNCHANGED <<wire>>
       ELSE /\ wire' = Append(wire, Sent("initialize", sendRequestSession("initialize", TRUE),
                                         hookHeaders(c) = "ok"))
            /\ callers' = [callers EXCEPT ![c].pc = "initWait", ![c].req = Len(wire) + 1]
            /\ UNCHANGED <<initOnce, initErr, ensureSeen>>
    /\ UNCHANGED toolVars
    /\ UNCHANGED <<lastReturn, sessionBearing, sessionId, ServerVersion, initResult, hookRuns, calls>>

\* initializeSession: the initialize response and the checks on it.
HookRecvInitialize(c) ==
    /\ callers[c].pc = "initWait"
    /\ \E resp \in InitializeResponses :
        LET e == doRPC(resp, TRUE)
            result == resp.result
        IN  IF e # Nil
            THEN /\ hookReturn(c, e)
                 /\ wire' = Answered(c, e)
                 /\ UNCHANGED <<sessionId, ServerVersion, initResult>>
            ELSE /\ wire' = Answered(c, Nil)
                 /\ initResult' = result
                 /\ IF handshakeChecks(result) # Nil
                    THEN /\ hookReturn(c, handshakeChecks(result))
                         \* t.ServerVersion is assigned before the session check
                         /\ ServerVersion' =
                                IF versionCheck(result) = Nil /\ capabilitiesCheck(result) = Nil
                                THEN result.version ELSE ServerVersion
                         /\ UNCHANGED sessionId
                    ELSE /\ ServerVersion' = result.version
                         /\ sessionId' = IF sessionBearing THEN result.sid ELSE sessionId
                         /\ callers' = [callers EXCEPT ![c].pc = "notifySend", ![c].req = 0]
                         /\ UNCHANGED <<initOnce, initErr, ensureSeen>>
    /\ UNCHANGED toolVars
    /\ UNCHANGED <<lastReturn, sessionBearing, hookRuns, calls>>

\* initializeSession: sendNotification(ctx, "notifications/initialized", {})
HookSendNotification(c) ==
    /\ callers[c].pc = "notifySend"
    /\ wire' = Append(wire, Sent("notifications/initialized", sendNotificationSession,
                                  hookHeaders(c) = "ok"))
    /\ callers' = [callers EXCEPT ![c].pc = "notifyWait", ![c].req = Len(wire) + 1]
    /\ UNCHANGED toolVars
    /\ UNCHANGED <<lastReturn, sessionBearing, initOnce, initErr, sessionId, ServerVersion, initResult,
                   hookRuns, ensureSeen, calls>>

\* initializeSession: the status of the notification is the hook's result.
HookRecvNotification(c) ==
    /\ callers[c].pc = "notifyWait"
    /\ \E resp \in NotificationResponses :
        /\ hookReturn(c, doRPC(resp, FALSE))
        /\ wire' = Answered(c, doRPC(resp, FALSE))
    /\ UNCHANGED toolVars
    /\ UNCHANGED <<lastReturn, sessionBearing, sessionId, ServerVersion, initResult, hookRuns, calls>>

HeaderName == "Authorization"
HeaderErr(name) == <<"failed to get token for header", name, "token">>

ReturnOf(c, val, e, result) ==
    /\ callers' = [callers EXCEPT ![c] = Idle]
    /\ lastReturn' = [op |-> callers[c].op, arg |-> callers[c].arg, val |-> val, err |-> e,
                      result |-> result]

Return(c, val, e) == ReturnOf(c, val, e, NoList)

Method(op) == IF op = "InvokeTool" THEN "tools/call" ELSE "tools/list"

\* ListTools appends its toolset name to the base URL; GetTool lists the
\* default toolset; InvokeTool posts to the base URL.
requestURL_named(op, arg) == IF op \in {"ListTools", "GetTool"} THEN arg ELSE ""

requestURL(op, arg) == IF op = "ListTools" THEN arg ELSE ""

\* resolveHeaders: the error of the first token source that fails (a nil map
\* and nil sources are skipped).
resolveHeaders_skipFailed(hdr) == Nil

resolveHeaders(hdr) == IF hdr = "fail" THEN HeaderErr(HeaderName) ELSE Nil

\* After EnsureInitialized: return its error, or resolve the headers and send
\* the tools/list or tools/call request.
AfterEnsure(c) ==
    /\ callers[c].pc = "ensured"
    /\ LET me == callers[c] IN
        IF me.op = "EnsureInitialized" \/ me.err # Nil
        THEN /\ Return(c, <<>>, me.err)
             /\ UNCHANGED wire
        ELSE IF resolveHeaders(me.hdr) # Nil
        THEN /\ Return(c, <<>>, resolveHeaders(me.hdr))
             /\ UNCHANGED wire
        ELSE IF ~me.argsOK
        THEN /\ Return(c, <<>>, Wrap("failed to invoke tool",
                                                Wrap("marshal failed", Err("json"))))
             /\ UNCHANGED wire
        ELSE IF me.ctx = "cancelled"
        THEN /\ Return(c, <<>>,
                    Wrap(IF me.op = "InvokeTool" THEN "failed to invoke tool"
                         ELSE "failed to list tools", ctxErr))
             /\ UNCHANGED wire
        ELSE /\ wire' = Append(wire, SentTo(requestURL(me.op, me.arg), Method(me.op),
                                          sendRequestSession(Method(me.op), me.argsOK),
                                          me.hdr = "ok"))
             /\ callers' = [callers EXCEPT ![c].pc = "rpcWait", ![c].req = Len(wire) + 1]
             /\ UNCHANGED lastReturn
    /\ UNCHANGED toolVars
    /\ UNCHANGED <<sessionBearing, initOnce, initErr, sessionId, ServerVersion, initResult,
                   hookRuns, ensureSeen, calls>>

\* ListTools: the manifest, or the failure on a tool without a name.
listManifest_skipEmpty(defs) ==
    [val |-> <<ServerVersion, {defs[i] : i \in DOMAIN defs} \ {""}>>, err |-> Nil]

listManifest(defs) ==
    IF \E i \in DOMAIN defs : defs[i] = ""
    THEN [val |-> <<>>, err |-> Err("received invalid tool definition: missing 'name' field")]
    ELSE [val |-> <<ServerVersion, {defs[i] : i \in DOMAIN defs}>>, err |-> Nil]

\* GetTool: the lookup in the list's manifest.
getToolManifest_wholeList(defs, name) ==
    IF listManifest(defs).err # Nil THEN listManifest(defs)
    ELSE IF name \notin listManifest(defs).val[2]
    THEN [val |-> <<>>, err |-> Err("tool not found")]
    ELSE listManifest(defs)

getToolManifest(defs, name) ==
    IF listManifest(defs).err # Nil THEN listManifest(defs)
    ELSE IF name \notin listManifest(defs).val[2]
    THEN [val |-> <<>>, err |-> Err("tool not found")]
    ELSE [val |-> <<ServerVersion, {name}>>, err |-> Nil]

\* InvokeTool: the result of the call.
invokeResult(r) ==
    IF r.isError THEN [val |-> <<>>, err |-> Err("tool execution resulted in error")]
    ELSE [val |-> invokeOutput(r.content), err |-> Nil]

\* The tools/list or tools/call response arrives and the call returns.
RecvResponse(c) ==
    /\ callers[c].pc = "rpcWait"
    /\ LET me == callers[c] IN
       \E resp \in RPCResponses(Method(me.op)) :
        LET e == doRPC(resp, TRUE)
            out == IF me.op = "InvokeTool" THEN invokeResult(resp.result)
                   ELSE IF me.op = "GetTool" THEN getToolManifest(resp.result, me.arg)
                   ELSE listManifest(resp.result)
        IN  /\ wire' = Answered(c, e)
            /\ IF e # Nil
                THEN Return(c, <<>>, Wrap(IF me.op = "InvokeTool" THEN "failed to invoke tool"
                                          ELSE "failed to list tools", e))
                ELSE ReturnOf(c, out.val, out.err,
                              IF me.op = "InvokeTool" THEN NoList ELSE resp.result)
    /\ UNCHANGED toolVars
    /\ UNCHANGED <<sessionBearing, initOnce, initErr, sessionId, ServerVersion, initResult,
                   hookRuns, ensureSeen, calls>>

(***************************************************************************)
(* The HTTP transport (ToolboxTransport). A call is one step: it has no    *)
(* handshake and keeps no state. The call's result and the requests it     *)
(* handed to the HTTP client are recorded in lastOp.                       *)
(***************************************************************************)
RestReplies == {"netFail", "ok", "status500"}
RestPre == {"ok", "noClient", "badPayload"}

ResolveAndApplyHeaders(hdr) ==
    IF hdr = "fail" THEN <<"failed to resolve token for header", HeaderName, "token">> ELSE Nil

RestRequest(method, url, hdr) == [method |-> method, url |-> url, hdr |-> hdr = "ok"]
RestOut(val, e, reqs) == [val |-> val, err |-> e, reqs |-> reqs]

restReply(reply, reqs, failText) ==
    IF reply = "netFail" THEN RestOut(<<>>, Wrap(failText, Err("transport")), reqs)
    ELSE IF reply = "status500" THEN RestOut(<<>>, Err("status 500 Internal Server Error"), reqs)
    ELSE RestOut(<<"1.0.0", "ok">>, Nil, reqs)

\* LoadManifest, behind GetTool and ListTools.
restManifest(url, hdr, reply) ==
    IF ResolveAndApplyHeaders(hdr) # Nil
    THEN RestOut(<<>>, Wrap("failed to apply client headers", ResolveAndApplyHeaders(hdr)), <<>>)
    ELSE restReply(reply, <<RestRequest("GET", url, hdr)>>, "failed to make HTTP request")

restInvoke(url, pre, hdr, reply) ==
    IF pre = "noClient" THEN RestOut(<<>>, Err("http client is not set"), <<>>)
    ELSE IF pre = "badPayload"
    THEN RestOut(<<>>, Wrap("failed to marshal tool payload for API call", Err("json")), <<>>)
    ELSE IF ResolveAndApplyHeaders(hdr) # Nil THEN RestOut(<<>>, ResolveAndApplyHeaders(hdr), <<>>)
    ELSE restReply(reply, <<RestRequest("POST", url, hdr)>>, "HTTP call to tool failed")

restCall(fn, arg, pre, hdr, reply) ==
    IF fn = "GetTool" THEN restManifest(<<"api", "tool", arg>>, hdr, reply)
    ELSE IF fn = "ListTools" THEN restManifest(<<"api", "toolset", arg>>, hdr, reply)
    ELSE restInvoke(<<"api", "tool", arg, "invoke">>, pre, hdr, reply)

RestCallInputs ==
    {<<fn, "toolA", "ok", hdr>> : fn \in {"GetTool", "InvokeTool"}, hdr \in {"nil", "ok", "fail"}}
      \cup {<<"ListTools", "", "ok", hdr>> : hdr \in {"ok", "fail"}}
      \cup {<<"InvokeTool", "toolA", pre, "fail">> : pre \in RestPre}

RestCall ==
    /\ calls < MaxCalls
    /\ calls' = calls + 1
    /\ \E in \in RestCallInputs, reply \in RestReplies :
          lastOp' = [op |-> "rest", fn |-> in[1], arg |-> in[2], pre |-> in[3], hdr |-> in[4],
                     out |-> restCall(in[1], in[2], in[3], in[4], reply)]
    /\ UNCHANGED <<heap, tools, defaultToolOptions>>
    /\ UNCHANGED <<sessionBearing, initOnce, initErr, sessionId, ServerVersion, callers, wire,
                   initResult, hookRuns, ensureSeen, lastReturn>>

(***************************************************************************)
(* Tool descriptors.                                                       *)
(*                                                                         *)
(* Go slices and maps are references: the heap is a sequence of backing    *)
(* stores and a descriptor's collection fields hold addresses into it      *)
(* (0 is the nil slice / nil map).                                         *)
(***************************************************************************)
MaxTools == 3

Alloc(h, v) == Append(h, v)
NewAddr(h) == Len(h) + 1
At(h, a) == IF a = 0 THEN <<>> ELSE h[a]
Put(m, k, v) == (k :> v) @@ m

\* A fixed order in which the model walks the keys of a Go map whenever the
\* order cannot be observed.
KeyOrder == <<"p1", "p2", "p3", "p4", "zz", "yy", "g", "h">>
Keys(m) == SelectSeq(KeyOrder, LAMBDA k : k \in DOMAIN m)
Range(q) == {q[i] : i \in DOMAIN q}
Perms(S) == {q \in [1..Cardinality(S) -> S] : \A i, j \in 1..Cardinality(S) : q[i] = q[j] => i = j}

(***************************************************************************)
(* The manifest the server holds (ManifestSchema / ToolSchema /            *)
(* ParameterSchema). Parameter names are unique within a tool.             *)
(***************************************************************************)
Param(n, ty, auth) == [name |-> n, type |-> ty, authSources |-> auth]

Manifest ==
    [toolA |-> [parameters |-> <<Param("p1", "string", <<>>), Param("p2", "string", <<"g">>),
                                 Param("p3", "array", <<>>)>>,
                authRequired |-> <<>>],
     toolB |-> [parameters |-> <<Param("p1", "string", <<>>)>>,
                authRequired |-> <<"h">>]]

ToolNames == DOMAIN Manifest

(***************************************************************************)
(* ToolOption / ToolConfig. An option sets one field of the configuration  *)
(* and fails when that field (the name, the strict flag, that bound        *)
(* parameter, that auth service) is already set.                           *)
(***************************************************************************)
WithBindParam(n, v) == [k |-> "bind", key |-> n, val |-> v]
WithAuthTokenSource(s, p) == [k |-> "auth", key |-> s, val |-> p]
WithName(n) == [k |-> "name", key |-> "", val |-> n]
WithStrict(b) == [k |-> "strict", key |-> "", val |-> b]

\* The value "slice" stands for a []string{"a", "b"} the caller has just made.
Options ==
    {WithBindParam("p1", "v1"), WithBindParam("p1", "v2"), WithBindParam("p2", "v1"),
     WithBindParam("p3", "slice"), WithBindParam("zz", "v1"),
     WithAuthTokenSource("g", "tok1"), WithAuthTokenSource("g", "tok2"),
     WithAuthTokenSource("h", "tok1"), WithName("set"), WithStrict("true")}

\* The option lists a call is given: every single option, and the pairs in
\* which two options meet (a good one with a bad one, two bad ones, the same
\* one twice, two good ones).
ToolFromOptionLists ==
    {<<>>} \cup {<<o>> : o \in Options} \cup
    {<<WithBindParam("p1", "v1"), WithAuthTokenSource("g", "tok2")>>,
     <<WithBindParam("p1", "v1"), WithBindParam("zz", "v1")>>,
     <<WithBindParam("zz", "v1"), WithBindParam("p3", "slice")>>,
     <<WithBindParam("p2", "v1"), WithBindParam("zz", "v1")>>,
     <<WithBindParam("p1", "v1"), WithBindParam("p1", "v2")>>,
     <<WithBindParam("p1", "v2"), WithBindParam("p3", "slice")>>,
     <<WithAuthTokenSource("g", "tok1"), WithAuthTokenSource("h", "tok1")>>,
     <<WithAuthTokenSource("h", "tok1"), WithBindParam("p3", "slice")>>,
     <<WithBindParam("p1", "v1"), WithName("set")>>}

LoadOptionLists ==
    {<<>>, <<WithBindParam("p3", "slice")>>, <<WithAuthTokenSource("g", "tok1")>>,
     <<WithAuthTokenSource("h", "tok1")>>, <<WithBindParam("zz", "v1")>>}

ToolsetOptionLists ==
    {<<>>, <<WithBindParam("p3", "slice")>>, <<WithAuthTokenSource("g", "tok1")>>,
     <<WithStrict("true")>>, <<WithName("set")>>,
     <<WithStrict("true"), WithBindParam("p3", "slice")>>}

EmptyConfig ==
    [AuthTokenSources |-> <<>>, BoundParams |-> <<>>, Name |-> "", Strict |-> FALSE,
     nameSet |-> FALSE, strictSet |-> FALSE]

applyOption(cfg, o) ==
    IF o.k = "name" THEN
        IF cfg.nameSet THEN [cfg |-> cfg, err |-> Err("name is already set and cannot be overridden")]
        ELSE [cfg |-> [cfg EXCEPT !.Name = o.val, !.nameSet = TRUE], err |-> Nil]
    ELSE IF o.k = "strict" THEN
        IF cfg.strictSet THEN [cfg |-> cfg, err |-> Err("strict is already set")]
        ELSE [cfg |-> [cfg EXCEPT !.Strict = (o.val = "true"), !.strictSet = TRUE], err |-> Nil]
    ELSE IF o.k = "bind" THEN
        IF o.key \in DOMAIN cfg.BoundParams
        THEN [cfg |-> cfg, err |-> <<"duplicate parameter binding: parameter is already set", o.key>>]
        ELSE [cfg |-> [cfg EXCEPT !.BoundParams = Put(@, o.key, o.val)], err |-> Nil]
    ELSE
        IF o.key \in DOMAIN cfg.AuthTokenSources
        THEN [cfg |-> cfg, err |-> <<"authentication source is already set", o.key>>]
        ELSE [cfg |-> [cfg EXCEPT !.AuthTokenSources = Put(@, o.key, o.val)], err |-> Nil]

\* for _, opt := range opts { if err := opt(config); err != nil { return nil, err } }
RECURSIVE applyOptions(_, _)
applyOptions(cfg, opts) ==
    IF opts = <<>> THEN [cfg |-> cfg, err |-> Nil]
    ELSE LET r == applyOption(cfg, Head(opts))
         IN  IF r.err # Nil THEN r ELSE applyOptions(r.cfg, Tail(opts))

\* A nil ToolOption in an options list, and the loop of LoadTool and
\* LoadToolset over the options of the call, which tests each for nil before
\* it applies it. The client's default options hold no nil option.
NilOption == [k |-> "nil", key |-> "", val |-> ""]
NilOptionErr == Err("received a nil ToolOption in options list")

RECURSIVE applyCallOptions_skipFailed(_, _)
applyCallOptions_skipFailed(cfg, opts) ==
    IF opts = <<>> THEN [cfg |-> cfg, err |-> Nil]
    ELSE IF Head(opts) = NilOption THEN [cfg |-> cfg, err |-> NilOptionErr]
    ELSE IF applyOption(cfg, Head(opts)).err # Nil
    THEN [cfg |-> applyCallOptions_skipFailed(cfg, Tail(opts)).cfg,
          err |-> applyOption(cfg, Head(opts)).err]
    ELSE applyCallOptions_skipFailed(applyOption(cfg, Head(opts)).cfg, Tail(opts))

RECURSIVE applyCallOptions(_, _)
applyCallOptions(cfg, opts) ==
    IF opts = <<>> THEN [cfg |-> cfg, err |-> Nil]
    ELSE IF Head(opts) = NilOption THEN [cfg |-> cfg, err |-> NilOptionErr]
    ELSE IF applyOption(cfg, Head(opts)).err # Nil THEN applyOption(cfg, Head(opts))
    ELSE applyCallOptions(applyOption(cfg, Head(opts)).cfg, Tail(opts))

(***************************************************************************)
(* Bound values as the descriptor holds them: a literal, a function that   *)
(* provides the value at each Invoke, or a slice (the                      *)
(* address of its backing store).                                          *)
(***************************************************************************)
Lit(v) == [k |-> "lit", v |-> v, a |-> 0]
Slice(a) == [k |-> "slice", v |-> "", a |-> a]
Func == [k |-> "func", v |-> "", a |-> 0]

\* The values of the configuration's BoundParams, the caller's slices being
\* objects of the heap.
RECURSIVE boundValues(_, _, _, _)
boundValues(h, bound, keys, acc) ==
    IF keys = <<>> THEN [heap |-> h, map |-> acc]
    ELSE LET n == Head(keys) IN
         IF bound[n] = "slice"
         THEN boundValues(Alloc(h, <<"a", "b">>), bound, Tail(keys), Put(acc, n, Slice(NewAddr(h))))
         ELSE IF bound[n] = "func"
         THEN boundValues(h, bound, Tail(keys), Put(acc, n, Func))
         ELSE boundValues(h, bound, Tail(keys), Put(acc, n, Lit(bound[n])))

(***************************************************************************)
(* identifyAuthRequirements / isServiceProvided / findUnusedKeys           *)
(***************************************************************************)
isServiceProvided_first(requiredServices, provided) ==
    requiredServices # <<>> /\ requiredServices[1] \in provided

isServiceProvided(requiredServices, provided) ==
    \E i \in DOMAIN requiredServices : requiredServices[i] \in provided

identifyAuthRequirements_allOf(reqAuthnParams, reqAuthzTokens, provided) ==
    LET unmet == {n \in DOMAIN reqAuthnParams : ~isServiceProvided(reqAuthnParams[n], provided)}
        usedAuthn == {s \in provided : \E n \in DOMAIN reqAuthnParams :
                        /\ isServiceProvided(reqAuthnParams[n], provided)
                        /\ s \in Range(reqAuthnParams[n])}
        usedAuthz == {s \in provided : s \in Range(reqAuthzTokens)}
        isAuthzMet == \A i \in DOMAIN reqAuthzTokens : reqAuthzTokens[i] \in provided
    IN  [authn |-> [n \in unmet |-> reqAuthnParams[n]],
         authz |-> IF isAuthzMet THEN <<>>
                   ELSE SelectSeq(reqAuthzTokens, LAMBDA s : s \notin provided),
         authzMet |-> isAuthzMet,
         used |-> usedAuthn \cup usedAuthz]

identifyAuthRequirements(reqAuthnParams, reqAuthzTokens, provided) ==
    LET unmet == {n \in DOMAIN reqAuthnParams : ~isServiceProvided(reqAuthnParams[n], provided)}
        usedAuthn == {s \in provided : \E n \in DOMAIN reqAuthnParams :
                        /\ isServiceProvided(reqAuthnParams[n], provided)
                        /\ s \in Range(reqAuthnParams[n])}
        usedAuthz == {s \in provided : s \in Range(reqAuthzTokens)}
        isAuthzMet == \E i \in DOMAIN reqAuthzTokens : reqAuthzTokens[i] \in provided
    IN  [authn |-> [n \in unmet |-> reqAuthnParams[n]],
         authz |-> IF isAuthzMet THEN <<>> ELSE reqAuthzTokens,
         authzMet |-> isAuthzMet,
         used |-> usedAuthn \cup usedAuthz]

findUnusedKeys_first(provided, used) ==
    IF provided \ used = {} THEN {} ELSE {CHOOSE k \in provided \ used : TRUE}
findUnusedKeys(provided, used) == provided \ used

(***************************************************************************)
(* newToolboxTool                                                          *)
(***************************************************************************)
schemaNames(schema) == {schema.parameters[i].name : i \in DOMAIN schema.parameters}

isAuthGated(p) == Len(p.authSources) > 0

\* The parameters left to the caller: not auth-gated and not bound.
finalParameters(schema, bound) ==
    SelectSeq(schema.parameters, LAMBDA p : ~isAuthGated(p) /\ p.name \notin DOMAIN bound)

\* The bindings of the configuration that apply to this tool.
localBoundParams_gatedToo(schema, bound) ==
    [n \in {m \in DOMAIN bound : \E i \in DOMAIN schema.parameters :
                schema.parameters[i].name = m} |-> bound[n]]

localBoundParams(schema, bound) ==
    [n \in {m \in DOMAIN bound : \E i \in DOMAIN schema.parameters :
                /\ schema.parameters[i].name = m
                /\ ~isAuthGated(schema.parameters[i])} |-> bound[n]]

authnParams(schema) ==
    [n \in {schema.parameters[i].name : i \in {j \in DOMAIN schema.parameters :
                isAuthGated(schema.parameters[j])}} |->
        (CHOOSE p \in Range(schema.parameters) : p.name = n).authSources]

\* A descriptor under construction: the heap so far and the descriptor.
withStore(st, field, v) ==
    [heap |-> Alloc(st.heap, v), tool |-> [st.tool EXCEPT ![field] = NewAddr(st.heap)]]

\* The requiredAuthnParams map: every value is the slice of the schema.
RECURSIVE authnCells(_, _, _, _)
authnCells(h, authn, keys, acc) ==
    IF keys = <<>> THEN [heap |-> h, map |-> acc]
    ELSE authnCells(Alloc(h, authn[Head(keys)]), authn, Tail(keys),
                    Put(acc, Head(keys), NewAddr(h)))

withMap(st, field, cells) == withStore([st EXCEPT !.heap = cells.heap], field, cells.map)

withAuthn(st, authn) ==
    withMap(st, "requiredAuthnParams", authnCells(st.heap, authn, Keys(authn), <<>>))

\* requiredAuthzTokens is nil once the authorization is met.
withAuthz(st, authz) == IF authz = <<>> THEN st ELSE withStore(st, "requiredAuthzTokens", authz)

built(st, req, usedBound) ==
    [heap |-> st.heap, tool |-> st.tool, unknown |-> {}, usedAuth |-> req.used,
     usedBound |-> usedBound]

\* tt := &ToolboxTool{...}
assemble(h, name, schema, bound, authAddr, hdrAddr, req) ==
    built(withAuthz(withAuthn(
              withStore(withStore(
                  [heap |-> h,
                   tool |-> [name |-> name, parameters |-> 0, authTokenSources |-> authAddr,
                             boundParams |-> 0, requiredAuthnParams |-> 0,
                             requiredAuthzTokens |-> 0, clientHeaderSources |-> hdrAddr,
                             parent |-> 0, schema |-> schema]],
                  "parameters", finalParameters(schema, bound)),
                  "boundParams", localBoundParams(schema, bound)),
              req.authn), req.authz),
          req, DOMAIN localBoundParams(schema, bound))

\* cfg is the merged configuration, bound its BoundParams as heap values,
\* authAddr the address of its AuthTokenSources map, hdrAddr the client's
\* clientHeaderSources map.
newToolboxTool(h, name, schema, cfg, bound, authAddr, hdrAddr, isStrict) ==
    IF isStrict /\ DOMAIN bound \ schemaNames(schema) # {}
    THEN [heap |-> h, tool |-> <<>>, unknown |-> DOMAIN bound \ schemaNames(schema),
          usedAuth |-> {}, usedBound |-> {}]
    ELSE assemble(h, name, schema, bound, authAddr, hdrAddr,
                  identifyAuthRequirements(authnParams(schema), schema.authRequired,
                                           DOMAIN cfg.AuthTokenSources))

(***************************************************************************)
(* cloneToolboxTool                                                        *)
(***************************************************************************)
\* make + copy of a slice, make + maps.Copy of a map: the field of the clone
\* gets a store of its own.
cloneStore_aliased(st, tt, field) ==
    IF field = "authTokenSources" /\ tt[field] # 0 THEN st
    ELSE withStore(st, field, At(st.heap, tt[field]))

cloneStore(st, tt, field) == withStore(st, field, At(st.heap, tt[field]))

\* A bound value: a slice gets a new backing store, anything else is copied.
cloneBoundValue_shallow(h, v) == [heap |-> h, val |-> v]
cloneBoundValue(h, v) ==
    IF v.k = "slice"
    THEN [heap |-> Alloc(h, At(h, v.a)), val |-> Slice(NewAddr(h))]
    ELSE [heap |-> h, val |-> v]

RECURSIVE cloneBoundParams(_, _, _, _)
cloneBoundParams(h, src, keys, acc) ==
    IF keys = <<>> THEN [heap |-> h, map |-> acc]
    ELSE cloneBoundParams(cloneBoundValue(h, src[Head(keys)]).heap, src, Tail(keys),
                          Put(acc, Head(keys), cloneBoundValue(h, src[Head(keys)]).val))

RECURSIVE cloneAuthnParams(_, _, _, _)
cloneAuthnParams(h, src, keys, acc) ==
    IF keys = <<>> THEN [heap |-> h, map |-> acc]
    ELSE cloneAuthnParams(Alloc(h, At(h, src[Head(keys)])), src, Tail(keys),
                          Put(acc, Head(keys), NewAddr(h)))

cloneBound_dropped(st, tt) == withStore(st, "boundParams", <<>>)

cloneBound(st, tt) ==
    withMap(st, "boundParams",
            cloneBoundParams(st.heap, At(st.heap, tt.boundParams),
                             Keys(At(st.heap, tt.boundParams)), <<>>))

cloneAuthn(st, tt) ==
    withMap(st, "requiredAuthnParams",
            cloneAuthnParams(st.heap, At(st.heap, tt.requiredAuthnParams),
                             Keys(At(st.heap, tt.requiredAuthnParams)), <<>>))

cloneToolboxTool(h, tt) ==
    cloneStore(
        cloneAuthn(
            cloneBound(
                cloneStore(
                    cloneStore(
                        cloneStore([heap |-> h, tool |-> tt], tt, "parameters"),
                        tt, "requiredAuthzTokens"),
                    tt, "authTokenSources"),
                tt),
            tt),
        tt, "clientHeaderSources")

(***************************************************************************)
(* ToolFrom                                                                *)
(***************************************************************************)
authExists_never(m, name) == FALSE
authExists(m, name) == name \in DOMAIN m

\* Merge of config.AuthTokenSources into the clone, in the order the map is walked.
RECURSIVE mergeAuthTokenSources(_, _, _, _)
mergeAuthTokenSources(h, newTt, sources, order) ==
    IF order = <<>> THEN [heap |-> h, err |-> Nil]
    ELSE IF authExists(At(h, newTt.authTokenSources), Head(order))
    THEN [heap |-> h, err |-> <<"cannot override existing auth token source", Head(order)>>]
    ELSE mergeAuthTokenSources(
            [h EXCEPT ![newTt.authTokenSources] = Put(@, Head(order), sources[Head(order)])],
            newTt, sources, Tail(order))

bindable_always(paramNames, name) == TRUE
bindable(paramNames, name) == name \in paramNames

\* Merge of config.BoundParams into the clone, in the order the map is walked.
RECURSIVE mergeBoundParams(_, _, _, _, _, _)
mergeBoundParams(h, paramNames, parentBound, newTt, bound, order) ==
    IF order = <<>> THEN [heap |-> h, err |-> Nil]
    ELSE IF ~bindable(paramNames, Head(order))
    THEN IF Head(order) \notin DOMAIN parentBound
         THEN [heap |-> h, err |-> <<"unable to bind parameter: no parameter named", Head(order)>>]
         ELSE [heap |-> h, err |-> <<"cannot override existing bound parameter", Head(order)>>]
    ELSE mergeBoundParams(
            [h EXCEPT ![newTt.boundParams] = Put(@, Head(order), bound[Head(order)])],
            paramNames, parentBound, newTt, bound, Tail(order))

\* The unbound parameters of the new tool.
remainingParams_unfiltered(params, bound) == params
remainingParams(params, bound) == SelectSeq(params, LAMBDA p : p.name \notin DOMAIN bound)

\* A failed call leaves nothing behind but what it wrote to the stores that
\* existed before it (the first n stores of the heap).
toolFromFail(hf, n, e) == [heap |-> SubSeq(hf, 1, n), tool |-> <<>>, err |-> e]

\* newTt.parameters = newParams; return newTt, nil
toolFromReturn(h, newTt, parent, newParams) ==
    IF newParams = <<>>
    THEN [heap |-> h, tool |-> [newTt EXCEPT !.parameters = 0, !.parent = parent], err |-> Nil]
    ELSE [heap |-> Alloc(h, newParams),
          tool |-> [newTt EXCEPT !.parameters = NewAddr(h), !.parent = parent], err |-> Nil]

toolFromParams(n, tt, parent, newTt, bm) ==
    IF bm.err # Nil THEN toolFromFail(bm.heap, n, bm.err)
    ELSE toolFromReturn(bm.heap, newTt, parent,
                        remainingParams(At(bm.heap, tt.parameters),
                                        At(bm.heap, newTt.boundParams)))

toolFromBind(n, tt, parent, newTt, bound, boundOrder, auth) ==
    IF auth.err # Nil THEN toolFromFail(auth.heap, n, auth.err)
    ELSE toolFromParams(n, tt, parent, newTt,
            mergeBoundParams(auth.heap, {p.name : p \in Range(At(auth.heap, tt.parameters))},
                             At(auth.heap, tt.boundParams), newTt, bound, boundOrder))

toolFromAuth(n, tt, parent, config, bound, authOrder, boundOrder, clone) ==
    toolFromBind(n, tt, parent, clone.tool, bound, boundOrder,
                 mergeAuthTokenSources(clone.heap, clone.tool, config.AuthTokenSources,
                                       authOrder))

toolFromClone(n, tt, parent, config, authOrder, boundOrder, vals) ==
    toolFromAuth(n, tt, parent, config, vals.map, authOrder, boundOrder,
                 cloneToolboxTool(vals.heap, tt))

toolFromConfig(h, tt, parent, applied, authOrder, boundOrder) ==
    IF applied.err # Nil THEN toolFromFail(h, Len(h), applied.err)
    ELSE IF applied.cfg.nameSet
    THEN toolFromFail(h, Len(h), Err("ToolFrom: WithName option is not applicable"))
    ELSE IF applied.cfg.strictSet
    THEN toolFromFail(h, Len(h), Err("ToolFrom: WithStrict option is not applicable"))
    ELSE toolFromClone(Len(h), tt, parent, applied.cfg, authOrder, boundOrder,
                       boundValues(h, applied.cfg.BoundParams, Keys(applied.cfg.BoundParams),
                                   <<>>))

\* ToolFrom on the descriptor tt (the descriptor number parent). authOrder and
\* boundOrder are the orders in which the two maps of the configuration are
\* walked.
ToolFromResult(h, tt, parent, opts, authOrder, boundOrder) ==
    toolFromConfig(h, tt, parent, applyOptions(EmptyConfig, opts), authOrder, boundOrder)

Op(op, tool, name, opts, err, made) ==
    [op |-> op, tool |-> tool, name |-> name, opts |-> opts, err |-> err, made |-> made]

NoOp == Op("none", 0, "", <<>>, Nil, 0)

\* The step of the program that the call's result r makes.
returnTool(op, t, name, opts, r) ==
    /\ heap' = r.heap
    /\ tools' = IF r.err = Nil THEN Append(tools, r.tool) ELSE tools
    /\ lastOp' = Op(op, t, name, opts, r.err, IF r.err = Nil THEN 1 ELSE 0)

mapOrders(opts) ==
    Perms(DOMAIN applyOptions(EmptyConfig, opts).cfg.AuthTokenSources)
        \X Perms(DOMAIN applyOptions(EmptyConfig, opts).cfg.BoundParams)

\* tt.ToolFrom(opts...) on any descriptor built so far.
ToolFrom(t) ==
    /\ Len(tools) < MaxTools
    /\ \E opts \in ToolFromOptionLists :
       \E orders \in mapOrders(opts) :
            returnTool("ToolFrom", t, tools[t].name, opts,
                       ToolFromResult(heap, tools[t], t, opts, orders[1], orders[2]))
    /\ UNCHANGED defaultToolOptions
    /\ UNCHANGED transportVars

(***************************************************************************)
(* LoadTool                                                                *)
(***************************************************************************)
\* The address of the client's clientHeaderSources map.
ClientHeaders == 1

UnusedErr(unusedAuth, unusedBound) ==
    <<"validation failed", "unused auth tokens", unusedAuth, "unused bound parameters", unusedBound>>

\* The configuration as the client holds it: the bound values and the
\* AuthTokenSources map are objects of the heap.
withAuthMap(config, vals) ==
    IF config.AuthTokenSources = <<>>
    THEN [heap |-> vals.heap, bound |-> vals.map, authAddr |-> 0, config |-> config]
    ELSE [heap |-> Alloc(vals.heap, config.AuthTokenSources), bound |-> vals.map,
          authAddr |-> NewAddr(vals.heap), config |-> config]

finalConfig(h, config) ==
    withAuthMap(config, boundValues(h, config.BoundParams, Keys(config.BoundParams), <<>>))

loadFail(h, e) == [heap |-> h, tool |-> <<>>, tools |-> <<>>, err |-> e]

allOptions_callOnly(defaults, opts) == opts
\* The options applied to finalConfig: tc.defaultToolOptions, then the opts of
\* the call.
allOptions(defaults, opts) == defaults \o opts

\* The checks of LoadTool on the tool that newToolboxTool made.
loadToolValidate(h, name, config, unknownPick, made) ==
    IF made.unknown # {}
    THEN loadFail(h, <<"failed to create toolbox tool from schema",
                       "unable to bind parameter: no parameter named", unknownPick>>)
    ELSE IF findUnusedKeys(DOMAIN config.AuthTokenSources, made.usedAuth) # {}
            \/ findUnusedKeys(DOMAIN config.BoundParams, made.usedBound) # {}
    THEN loadFail(h, UnusedErr(findUnusedKeys(DOMAIN config.AuthTokenSources, made.usedAuth),
                               findUnusedKeys(DOMAIN config.BoundParams, made.usedBound)))
    ELSE [heap |-> made.heap, tool |-> made.tool, tools |-> <<made.tool>>, err |-> Nil]

loadToolBuild_configStrict(h, name, unknownPick, fc) ==
    loadToolValidate(h, name, fc.config, unknownPick,
                     newToolboxTool(fc.heap, name, Manifest[name], fc.config, fc.bound,
                                    fc.authAddr, ClientHeaders, fc.config.Strict))
loadToolBuild(h, name, unknownPick, fc) ==
    loadToolValidate(h, name, fc.config, unknownPick,
                     newToolboxTool(fc.heap, name, Manifest[name], fc.config, fc.bound,
                                    fc.authAddr, ClientHeaders, TRUE))

loadToolFetch(h, name, fetched, unknownPick, applied) ==
    IF applied.err # Nil THEN loadFail(h, applied.err)
    ELSE IF ~fetched THEN loadFail(h, Wrap("failed to load tool manifest", Err("transport")))
    ELSE IF name \notin ToolNames THEN loadFail(h, Err("tool not found"))
    ELSE loadToolBuild(h, name, unknownPick, finalConfig(h, applied.cfg))

\* The requests loadManifest hands to httpClient.Do: none when an option was
\* nil or failed, none when a client header token fails to resolve, one GET
\* otherwise.
ManifestRequest(url) == [method |-> "GET", tool |-> url, payload |-> <<>>, services |-> {}]

manifestRequests_eager(applied, headersOK, url) ==
    IF ~headersOK THEN <<>> ELSE <<ManifestRequest(url)>>

manifestRequests(applied, headersOK, url) ==
    IF applied.err # Nil \/ ~headersOK THEN <<>> ELSE <<ManifestRequest(url)>>

\* What LoadTool returns.
LoadToolResult(h, name, fetched, opts, unknownPick) ==
    loadToolFetch(h, name, fetched, unknownPick,
                  applyCallOptions(EmptyConfig, allOptions(defaultToolOptions, opts)))

unknownBound(name, opts) ==
    IF name \in ToolNames
    THEN DOMAIN applyCallOptions(EmptyConfig, allOptions(defaultToolOptions, opts)).cfg.BoundParams
            \ schemaNames(Manifest[name])
    ELSE {}

\* tc.LoadTool(name, opts...)
LoadTool ==
    /\ Len(tools) < MaxTools
    /\ \E name \in ToolNames \cup {"nope"}, opts \in LoadOptionLists, fetched \in BOOLEAN :
       \E pick \in IF unknownBound(name, opts) = {} THEN {""} ELSE unknownBound(name, opts) :
            returnTool("LoadTool", 0, name, opts, LoadToolResult(heap, name, fetched, opts, pick))
    /\ UNCHANGED defaultToolOptions
    /\ UNCHANGED transportVars

(***************************************************************************)
(* LoadToolset                                                             *)
(***************************************************************************)
\* for toolName, schema := range manifest.Tools { ... }: order is the order in
\* which the map is walked, pickOf the unknown name a strict failure reports,
\* acc the tools and the used keys so far.
RECURSIVE toolsetLoop(_, _, _, _, _)
RECURSIVE toolsetStep(_, _, _, _, _, _)
toolsetStep_perToolUnchecked(h, order, fc, pickOf, acc, made) ==
    IF made.unknown # {}
    THEN [heap |-> h, tools |-> <<>>, usedAuth |-> {}, usedBound |-> {},
          err |-> <<"failed to create tool", Head(order),
                    "unable to bind parameter: no parameter named", pickOf[Head(order)]>>]
    ELSE toolsetLoop(made.heap, Tail(order), fc, pickOf,
                     [tools |-> Append(acc.tools, made.tool),
                      usedAuth |-> acc.usedAuth \cup made.usedAuth,
                      usedBound |-> acc.usedBound \cup made.usedBound])
toolsetStep_firstOnly(h, order, fc, pickOf, acc, made) ==
    IF made.unknown # {}
    THEN [heap |-> h, tools |-> <<>>, usedAuth |-> {}, usedBound |-> {},
          err |-> <<"failed to create tool", Head(order),
                    "unable to bind parameter: no parameter named", pickOf[Head(order)]>>]
    ELSE IF fc.config.Strict /\ acc.tools = <<>>
            /\ (findUnusedKeys(DOMAIN fc.config.AuthTokenSources, made.usedAuth) # {}
                \/ findUnusedKeys(DOMAIN fc.config.BoundParams, made.usedBound) # {})
    THEN [heap |-> h, tools |-> <<>>, usedAuth |-> {}, usedBound |-> {},
          err |-> UnusedErr(findUnusedKeys(DOMAIN fc.config.AuthTokenSources, made.usedAuth),
                            findUnusedKeys(DOMAIN fc.config.BoundParams, made.usedBound))]
    ELSE toolsetLoop(made.heap, Tail(order), fc, pickOf,
                     [tools |-> Append(acc.tools, made.tool),
                      usedAuth |-> acc.usedAuth \cup made.usedAuth,
                      usedBound |-> acc.usedBound \cup made.usedBound])

toolsetStep(h, order, fc, pickOf, acc, made) ==
    IF made.unknown # {}
    THEN [heap |-> h, tools |-> <<>>, usedAuth |-> {}, usedBound |-> {},
          err |-> <<"failed to create tool", Head(order),
                    "unable to bind parameter: no parameter named", pickOf[Head(order)]>>]
    ELSE IF fc.config.Strict
            /\ (findUnusedKeys(DOMAIN fc.config.AuthTokenSources, made.usedAuth) # {}
                \/ findUnusedKeys(DOMAIN fc.config.BoundParams, made.usedBound) # {})
    THEN [heap |-> h, tools |-> <<>>, usedAuth |-> {}, usedBound |-> {},
          err |-> UnusedErr(findUnusedKeys(DOMAIN fc.config.AuthTokenSources, made.usedAuth),
                            findUnusedKeys(DOMAIN fc.config.BoundParams, made.usedBound))]
    ELSE toolsetLoop(made.heap, Tail(order), fc, pickOf,
                     [tools |-> Append(acc.tools, made.tool),
                      usedAuth |-> IF fc.config.Strict THEN acc.usedAuth
                                   ELSE acc.usedAuth \cup made.usedAuth,
                      usedBound |-> IF fc.config.Strict THEN acc.usedBound
                                    ELSE acc.usedBound \cup made.usedBound])

toolsetLoop(h, order, fc, pickOf, acc) ==
    IF order = <<>>
    THEN [heap |-> h, tools |-> acc.tools, usedAuth |-> acc.usedAuth,
          usedBound |-> acc.usedBound, err |-> Nil]
    ELSE toolsetStep(h, order, fc, pickOf, acc,
                     newToolboxTool(h, Head(order), Manifest[Head(order)], fc.config, fc.bound,
                                    fc.authAddr, ClientHeaders, fc.config.Strict))

toolsetValidate_unchecked(h, config, loop) ==
    IF loop.err # Nil THEN loadFail(h, loop.err)
    ELSE [heap |-> loop.heap, tool |-> <<>>, tools |-> loop.tools, err |-> Nil]
\* The checks of LoadToolset after the loop.
toolsetValidate(h, config, loop) ==
    IF loop.err # Nil THEN loadFail(h, loop.err)
    ELSE IF ~config.Strict
            /\ (findUnusedKeys(DOMAIN config.AuthTokenSources, loop.usedAuth) # {}
                \/ findUnusedKeys(DOMAIN config.BoundParams, loop.usedBound) # {})
    THEN loadFail(h, UnusedErr(findUnusedKeys(DOMAIN config.AuthTokenSources, loop.usedAuth),
                               findUnusedKeys(DOMAIN config.BoundParams, loop.usedBound)))
    ELSE [heap |-> loop.heap, tool |-> <<>>, tools |-> loop.tools, err |-> Nil]

toolsetBuild(h, order, pickOf, fc) ==
    toolsetValidate(h, fc.config,
                    toolsetLoop(fc.heap, order, fc, pickOf,
                                [tools |-> <<>>, usedAuth |-> {}, usedBound |-> {}]))

toolsetFetch(h, fetched, order, pickOf, applied) ==
    IF applied.err # Nil THEN loadFail(h, applied.err)
    ELSE IF ~fetched THEN loadFail(h, Wrap("failed to load toolset manifest", Err("transport")))
    ELSE toolsetBuild(h, order, pickOf, finalConfig(h, applied.cfg))

\* What LoadToolset returns.
LoadToolsetResult(h, fetched, opts, order, pickOf) ==
    toolsetFetch(h, fetched, order, pickOf,
                 applyCallOptions(EmptyConfig, allOptions(defaultToolOptions, opts)))

returnTools(opts, r) ==
    /\ heap' = r.heap
    /\ tools' = tools \o r.tools
    /\ lastOp' = Op("LoadToolset", 0, "", opts, r.err, Len(r.tools))

\* The unknown names a strict failure on each tool may report.
unknownPicks(opts) ==
    {pickOf \in [ToolNames -> {""} \cup Range(KeyOrder)] :
        \A n \in ToolNames :
            pickOf[n] \in IF ~applyCallOptions(EmptyConfig, allOptions(defaultToolOptions, opts)).cfg.Strict
                             \/ unknownBound(n, opts) = {}
                          THEN {""} ELSE unknownBound(n, opts)}

\* tc.LoadToolset(opts...)
LoadToolset ==
    /\ Len(tools) + Cardinality(ToolNames) <= MaxTools
    /\ \E opts \in ToolsetOptionLists, fetched \in BOOLEAN, order \in Perms(ToolNames) :
       \E pickOf \in unknownPicks(opts) :
            returnTools(opts, LoadToolsetResult(heap, fetched, opts, order, pickOf))
    /\ UNCHANGED defaultToolOptions
    /\ UNCHANGED transportVars

(***************************************************************************)
(* The program that holds a descriptor writes to the elements of one of    *)
(* the descriptor's slice-valued bound parameters.                         *)
(***************************************************************************)
WriteBoundSlice(t) ==
    /\ \E n \in DOMAIN At(heap, tools[t].boundParams) :
        LET v == At(heap, tools[t].boundParams)[n] IN
        /\ v.k = "slice"
        /\ heap[v.a][1] # "X"
        /\ heap' = [heap EXCEPT ![v.a][1] = "X"]
        /\ lastOp' = Op("WriteBoundSlice", t, n, <<>>, Nil, 0)
    /\ UNCHANGED <<tools, defaultToolOptions>>
    /\ UNCHANGED transportVars

InitTool ==
    /\ heap = <<<<>>>>
    /\ tools = <<>>
    /\ defaultToolOptions \in {<<>>, <<WithBindParam("p1", "v1")>>}
    /\ lastOp = NoOp

NextTool ==
    \/ LoadTool
    \/ LoadToolset
    \/ \E t \in DOMAIN tools : ToolFrom(t)
    \/ \E t \in DOMAIN tools : WriteBoundSlice(t)

Next ==
    \/ RestCall
    \/ \E c \in Callers :
        \/ Call(c)
        \/ OnceDoRun(c)
        \/ OnceDoReturn(c)
        \/ HookSendInitialize(c)
        \/ HookRecvInitialize(c)
        \/ HookSendNotification(c)
        \/ HookRecvNotification(c)
        \/ AfterEnsure(c)
        \/ RecvResponse(c)

Init ==
    /\ InitTransport
    /\ heap = <<>> /\ tools = <<>> /\ defaultToolOptions = <<>> /\ lastOp = NoOp

Spec == Init /\ [][Next]_vars

InitToolSpec ==
    /\ InitTool
    /\ sessionBearing = FALSE /\ initOnce = "idle" /\ initErr = Nil /\ sessionId = ""
    /\ ServerVersion = "" /\ callers = [c \in Callers |-> Idle] /\ wire = <<>>
    /\ initResult = NoResult /\ hookRuns = 0 /\ ensureSeen = {} /\ lastReturn = NoReturn
    /\ calls = 0

SpecTool == InitToolSpec /\ [][NextTool]_vars

(***************************************************************************)
(* Values a caller passes to Invoke and a payload holds: a value has the   *)
(* dynamic type t, the content v and, for a slice, its elements.           *)
(***************************************************************************)
\* A value (Go's any) with its dynamic type: string, int, int64, float64,
\* bool, a slice with its elements, a map, or nil.
StrVal(s) == [t |-> "string", v |-> s, elems |-> <<>>]
IntVal(s) == [t |-> "int", v |-> s, elems |-> <<>>]
Int64Val(s) == [t |-> "int64", v |-> s, elems |-> <<>>]
FloatVal(s) == [t |-> "float64", v |-> s, elems |-> <<>>]
BoolVal(s) == [t |-> "bool", v |-> s, elems |-> <<>>]
MapVal == [t |-> "map", v |-> "", elems |-> <<>>]
NilVal == [t |-> "nil", v |-> "", elems |-> <<>>]
ArrVal(items) == [t |-> "slice", v |-> "", elems |-> items]

\* A parameter of a schema with its required flag and its Items: <<>> is a
\* nil pointer, <<q>> points to the parameter q.
ParamR(n, ty, auth, req, items) ==
    [name |-> n, type |-> ty, authSources |-> auth, required |-> req, items |-> items]

ItemOf(ty, items) == <<ParamR("item", ty, <<>>, FALSE, items)>>
Items(p) == p.items[1]

\* The index of the first element of the slice that fails.
firstBad(bad) == CHOOSE i \in bad : \A j \in bad : i <= j

\* The Go type each case of the switch asserts: value.(string), value.(int),
\* value.(float64), value.(bool).
assertedType_anyInt(type) ==
    IF type = "string" THEN {"string"}
    ELSE IF type = "integer" THEN {"int", "int64", "float64"}
    ELSE IF type = "float" THEN {"float64"}
    ELSE {"bool"}

assertedType(type) ==
    IF type = "string" THEN {"string"}
    ELSE IF type = "integer" THEN {"int"}
    ELSE IF type = "float" THEN {"float64"}
    ELSE {"bool"}

\* func (p *Parameter) validateType(value any) error
RECURSIVE validateType(_, _)
validateType(p, value) ==
    IF value.t = "nil" THEN <<"parameter received a nil value", p.name>>
    ELSE IF p.type \in {"string", "integer", "float", "boolean"}
    THEN IF value.t \in assertedType(p.type) THEN Nil
         ELSE <<"parameter expects", p.type, p.name, value.t>>
    ELSE IF p.type = "array"
    THEN IF value.t # "slice" THEN <<"parameter expects an array/slice", p.name, value.t>>
         ELSE IF p.items = <<>>
         THEN <<"parameter is an array but is missing item type definition", p.name>>
         ELSE IF \A i \in DOMAIN value.elems : validateType(Items(p), value.elems[i]) = Nil
         THEN Nil
         ELSE <<"error in array at index", p.name,
                firstBad({i \in DOMAIN value.elems :
                            validateType(Items(p), value.elems[i]) # Nil})>>
    ELSE <<"unknown type in schema for parameter", p.type, p.name>>

(***************************************************************************)
(* Invoke: the permission step                                             *)
(***************************************************************************)
\* reqAuthServices: every service of every remaining requiredAuthnParams
\* entry and of requiredAuthzTokens.
reqAuthServices(h, tt) ==
    UNION {Range(At(h, At(h, tt.requiredAuthnParams)[n])) :
             n \in DOMAIN At(h, tt.requiredAuthnParams)}
        \cup Range(At(h, tt.requiredAuthzTokens))

\* The services the loop over reqAuthServices can stop at.
missingServices(h, tt) == reqAuthServices(h, tt) \ DOMAIN At(h, tt.authTokenSources)

PermissionErr(service) ==
    <<"permission error: auth service is required to invoke this tool but was not provided",
      service>>

(***************************************************************************)
(* validateAndBuildPayload                                                 *)
(***************************************************************************)
paramSchema(h, tt) == [n \in {p.name : p \in Range(At(h, tt.parameters))} |->
                          CHOOSE p \in Range(At(h, tt.parameters)) : p.name = n]

UnexpectedErr(key) == <<"unexpected parameter provided", key>>

\* The error the validation loop returns when it meets the key.
inputError_unknownIgnored(h, tt, input, key) ==
    IF key \in DOMAIN paramSchema(h, tt)
    THEN validateType(paramSchema(h, tt)[key], input[key])
    ELSE Nil
inputError(h, tt, input, key) ==
    IF key \notin DOMAIN paramSchema(h, tt) /\ key \notin DOMAIN At(h, tt.boundParams)
    THEN UnexpectedErr(key)
    ELSE IF key \in DOMAIN paramSchema(h, tt)
    THEN validateType(paramSchema(h, tt)[key], input[key])
    ELSE Nil

\* The keys at which the loop over input (a map) can stop.
badKeys(h, tt, input) == {key \in DOMAIN input : inputError(h, tt, input, key) # Nil}

\* A provider's return: a value or an error.
Returned(val) == [val |-> val, err |-> Nil]
Failed == [val |-> NilVal, err |-> Err("provider")]

\* resolvedValue of one bound parameter: the provider's return for a bound
\* function (ret is what each provider returns in this Invoke), the bound
\* value itself otherwise.
resolvedValue_cached(h, boundVal, name, ret) ==
    IF boundVal.k = "func"
    THEN IF lastOp.op = "Invoke" /\ name \in DOMAIN lastOp.ret /\ lastOp.ret[name].err = Nil
         THEN lastOp.ret[name].val ELSE ret[name].val
    ELSE IF boundVal.k = "slice"
    THEN ArrVal([i \in DOMAIN At(h, boundVal.a) |-> StrVal(At(h, boundVal.a)[i])])
    ELSE StrVal(boundVal.v)

resolvedValue(h, boundVal, name, ret) ==
    IF boundVal.k = "func" THEN ret[name].val
    ELSE IF boundVal.k = "slice"
    THEN ArrVal([i \in DOMAIN At(h, boundVal.a) |-> StrVal(At(h, boundVal.a)[i])])
    ELSE StrVal(boundVal.v)

funcNames(h, tt) == {n \in DOMAIN At(h, tt.boundParams) : At(h, tt.boundParams)[n].k = "func"}

\* The bound names at which the loop over boundParams (a map) can stop.
failingProviders(h, tt, ret) == {n \in funcNames(h, tt) : ret[n].err # Nil}

\* The providers the loop over boundParams (a map) may have called before the
\* one it stops at.
earlyProviders(h, tt, ret) ==
    IF failingProviders(h, tt, ret) = {} THEN {{}}
    ELSE SUBSET (funcNames(h, tt) \ failingProviders(h, tt, ret))

\* How often each provider is called in one Invoke: not at all when Invoke
\* returns before the loop over boundParams, once when the loop ends, and when
\* the loop stops at failPick once for failPick and for the providers the map
\* iteration met before it (early).
providerCalls(h, tt, input, ret, failPick, early) ==
    [n \in funcNames(h, tt) |->
        IF missingServices(h, tt) # {} \/ badKeys(h, tt, input) # {} THEN 0
        ELSE IF failingProviders(h, tt, ret) = {} THEN 1
        ELSE IF n = failPick \/ n \in early THEN 1 ELSE 0]

ResolveErr(name, e) == <<"failed to resolve bound parameter function for", name>> \o e

\* finalPayload: the caller's values of the unbound parameters, then every
\* bound parameter.
finalPayload_callerWins(h, tt, input, ret) ==
    [n \in (DOMAIN input \cap DOMAIN paramSchema(h, tt)) \cup DOMAIN At(h, tt.boundParams) |->
        IF n \in DOMAIN input THEN input[n]
        ELSE resolvedValue(h, At(h, tt.boundParams)[n], n, ret)]
finalPayload(h, tt, input, ret) ==
    [n \in (DOMAIN input \cap DOMAIN paramSchema(h, tt)) \cup DOMAIN At(h, tt.boundParams) |->
        IF n \in DOMAIN At(h, tt.boundParams)
        THEN resolvedValue(h, At(h, tt.boundParams)[n], n, ret)
        ELSE input[n]]

\* badPick and failPick are the keys at which the two loops stop when they
\* fail.
validateAndBuildPayload(h, tt, input, ret, badPick, failPick) ==
    IF badKeys(h, tt, input) # {}
    THEN [payload |-> <<>>, err |-> inputError(h, tt, input, badPick)]
    ELSE IF failingProviders(h, tt, ret) # {}
    THEN [payload |-> <<>>, err |-> ResolveErr(failPick, ret[failPick].err)]
    ELSE [payload |-> finalPayload(h, tt, input, ret), err |-> Nil]

(***************************************************************************)
(* Invoke                                                                  *)
(***************************************************************************)
\* The request handed to httpClient.Do: the payload and the names of the
\* services whose token it carries in a header.
ToolRequest(name, payload, services) ==
    [method |-> "POST", tool |-> name, payload |-> payload, services |-> services]

\* What httpClient.Do gives back: a transport failure or a status.
InvokeResponses == {[net |-> FALSE, status |-> 0], [net |-> TRUE, status |-> 200],
                    [net |-> TRUE, status |-> 500]}

\* A return of Invoke: reqs are the requests it handed to httpClient.Do.
invokeFail(e) == [err |-> e, payload |-> <<>>, reqs |-> <<>>, out |-> ""]

\* resp, err := tt.httpClient.Do(req) and the reading of the response.
invokeDo(tt, payload, services, resp) ==
    IF ~resp.net
    THEN [err |-> <<"API call to tool failed", tt.name>>, payload |-> payload,
          reqs |-> <<ToolRequest(tt.name, payload, services)>>, out |-> ""]
    ELSE IF resp.status < 200 \/ resp.status >= 300
    THEN [err |-> <<"tool API returned unexpected status", tt.name, resp.status>>,
          payload |-> payload, reqs |-> <<ToolRequest(tt.name, payload, services)>>, out |-> ""]
    ELSE [err |-> Nil, payload |-> payload,
          reqs |-> <<ToolRequest(tt.name, payload, services)>>, out |-> "result"]

\* The tokens of the auth sources become headers; tokenFail is the service
\* whose source fails, "" when every source gives a token.
invokeHeaders(h, tt, payload, tokenFail, resp) ==
    IF tokenFail # ""
    THEN invokeFail(<<"failed to get token for service", tokenFail, tt.name>>)
    ELSE invokeDo(tt, payload, DOMAIN At(h, tt.authTokenSources), resp)

invokePayload_requestFirst(h, tt, tokenFail, resp, made) ==
    IF made.err # Nil
    THEN [err |-> Wrap("tool payload processing failed", made.err), payload |-> <<>>,
          reqs |-> <<ToolRequest(tt.name, <<>>, {})>>, out |-> ""]
    ELSE invokeHeaders(h, tt, made.payload, tokenFail, resp)
\* finalPayload, err := tt.validateAndBuildPayload(input)
invokePayload(h, tt, tokenFail, resp, made) ==
    IF made.err # Nil THEN invokeFail(Wrap("tool payload processing failed", made.err))
    ELSE invokeHeaders(h, tt, made.payload, tokenFail, resp)

\* What Invoke returns. permPick is the service at which the permission loop
\* stops when a service is missing.
InvokeResult(h, tt, input, ret, permPick, badPick, failPick, tokenFail, resp) ==
    IF missingServices(h, tt) # {} THEN invokeFail(PermissionErr(permPick))
    ELSE invokePayload(h, tt, tokenFail, resp,
                       validateAndBuildPayload(h, tt, input, ret, badPick, failPick))

(***************************************************************************)
(* The descriptors Invoke is called on: tools whose auth requirements name *)
(* alternative services and whose parameters carry the required flag,      *)
(* loaded by LoadTool and derived once by ToolFrom.                        *)
(***************************************************************************)
MaxInvokes == 2

InvokeManifest ==
    [toolC |-> [parameters |-> <<ParamR("p1", "string", <<>>, TRUE, <<>>),
                                 ParamR("p2", "string", <<"g", "h">>, FALSE, <<>>),
                                 ParamR("p3", "array", <<>>, FALSE, ItemOf("string", <<>>)),
                                 ParamR("p4", "string", <<>>, FALSE, <<>>)>>,
                authRequired |-> <<>>],
     toolD |-> [parameters |-> <<ParamR("p1", "string", <<>>, TRUE, <<>>)>>,
                authRequired |-> <<"g", "h">>]]

\* The value "func" stands for a func() (string, error) the caller binds.
InvokeLoadOptionLists ==
    {<<>>, <<WithAuthTokenSource("g", "tok1")>>, <<WithBindParam("p4", "v1")>>,
     <<WithBindParam("p4", "func")>>,
     <<WithBindParam("p4", "func"), WithBindParam("p1", "func")>>,
     <<WithBindParam("p3", "slice"), WithAuthTokenSource("h", "tok1")>>}

InvokeFromOptionLists ==
    {<<WithAuthTokenSource("g", "tok1")>>, <<WithAuthTokenSource("h", "tok1")>>,
     <<WithBindParam("p4", "func")>>, <<WithBindParam("p1", "v2")>>,
     <<WithAuthTokenSource("g", "tok2"), WithAuthTokenSource("h", "tok2")>>}

\* The args of an Invoke.
InvokeInputs ==
    {<<>>,
     "p1" :> StrVal("x"),
     "p1" :> IntVal("1"),
     "p1" :> NilVal,
     ("p1" :> StrVal("x")) @@ ("zz" :> StrVal("x")),
     ("p1" :> StrVal("x")) @@ ("p2" :> StrVal("x")),
     ("p1" :> StrVal("x")) @@ ("p4" :> StrVal("mine")),
     ("p1" :> IntVal("1")) @@ ("zz" :> StrVal("x")),
     ("p1" :> StrVal("x")) @@ ("p3" :> ArrVal(<<StrVal("a"), IntVal("1")>>)),
     ("p3" :> ArrVal(<<StrVal("a")>>)) @@ ("p4" :> IntVal("1"))}

ProviderReturns == {Returned(StrVal("r1")), Returned(StrVal("r2")), Failed}

PickFrom(S) == IF S = {} THEN {""} ELSE S

\* LoadTool on a tool of InvokeManifest.
loadInvokeTool(h, name, unknownPick, fc) ==
    loadToolValidate(h, name, fc.config, unknownPick,
                     newToolboxTool(fc.heap, name, InvokeManifest[name], fc.config, fc.bound,
                                    fc.authAddr, ClientHeaders, TRUE))

LoadForInvoke ==
    /\ tools = <<>>
    /\ \E name \in DOMAIN InvokeManifest, opts \in InvokeLoadOptionLists :
       \E pick \in PickFrom(DOMAIN applyOptions(EmptyConfig, opts).cfg.BoundParams
                                \ schemaNames(InvokeManifest[name])) :
            returnTool("LoadTool", 0, name, opts,
                       loadInvokeTool(heap, name, pick,
                                      finalConfig(heap, applyOptions(EmptyConfig, opts).cfg)))
    /\ UNCHANGED defaultToolOptions
    /\ UNCHANGED transportVars

DeriveForInvoke ==
    /\ Len(tools) = 1
    /\ \E opts \in InvokeFromOptionLists :
       \E orders \in mapOrders(opts) :
            returnTool("ToolFrom", 1, tools[1].name, opts,
                       ToolFromResult(heap, tools[1], 1, opts, orders[1], orders[2]))
    /\ UNCHANGED defaultToolOptions
    /\ UNCHANGED transportVars

\* The step of the program that the return r of an Invoke makes.
returnInvoke(t, input, ret, called, r) ==
    /\ wire' = wire \o r.reqs
    /\ lastOp' = [op |-> "Invoke", tool |-> t, name |-> tools[t].name, opts |-> <<>>,
                  err |-> r.err, made |-> 0, input |-> input, ret |-> ret, called |-> called,
                  payload |-> r.payload, reqs |-> r.reqs, out |-> r.out]

\* tt.Invoke(ctx, input) on a descriptor built so far.
Invoke(t) ==
    /\ calls < MaxInvokes
    /\ \E input \in InvokeInputs, resp \in InvokeResponses :
       \E ret \in [funcNames(heap, tools[t]) -> ProviderReturns] :
       \E permPick \in PickFrom(missingServices(heap, tools[t])),
          badPick \in PickFrom(badKeys(heap, tools[t], input)),
          failPick \in PickFrom(failingProviders(heap, tools[t], ret)),
          tokenFail \in {""} \cup DOMAIN At(heap, tools[t].authTokenSources),
          early \in earlyProviders(heap, tools[t], ret) :
            returnInvoke(t, input, ret,
                         providerCalls(heap, tools[t], input, ret, failPick, early),
                         InvokeResult(heap, tools[t], input, ret, permPick, badPick, failPick,
                                      tokenFail, resp))
    /\ calls' = calls + 1
    /\ UNCHANGED <<sessionBearing, initOnce, initErr, sessionId, ServerVersion, callers,
                   initResult, hookRuns, ensureSeen, lastReturn>>
    /\ UNCHANGED <<heap, tools, defaultToolOptions>>

InitInvoke ==
    /\ heap = <<<<>>>> /\ tools = <<>> /\ defaultToolOptions = <<>> /\ lastOp = NoOp
    /\ sessionBearing = FALSE /\ initOnce = "idle" /\ initErr = Nil /\ sessionId = ""
    /\ ServerVersion = "" /\ callers = [c \in Callers |-> Idle] /\ wire = <<>>
    /\ initResult = NoResult /\ hookRuns = 0 /\ ensureSeen = {} /\ lastReturn = NoReturn
    /\ calls = 0

NextInvoke ==
    \/ LoadForInvoke
    \/ DeriveForInvoke
    \/ \E t \in DOMAIN tools : Invoke(t)

SpecInvoke == InitInvoke /\ [][NextInvoke]_vars

(***************************************************************************)
(* LoadTool and LoadToolset on a client with default options: the calls    *)
(* whose options repeat a field, name parameters that no tool has or that  *)
(* are auth-gated, and give services that some, all or none of the tools   *)
(* use.                                                                    *)
(***************************************************************************)
MaxLoads == 1

DefaultOptionLists ==
    {<<>>, <<WithBindParam("p1", "v1")>>, <<WithAuthTokenSource("g", "tok1")>>,
     <<WithBindParam("p1", "v1"), WithBindParam("p1", "v2")>>,
     <<WithStrict("true")>>, <<WithName("set")>>}

LoadCallOptionLists ==
    {<<NilOption>>, <<WithBindParam("p2", "v1"), NilOption>>,
     <<NilOption, WithBindParam("p2", "v1")>>,
     <<WithAuthTokenSource("h", "tok1"), NilOption, WithAuthTokenSource("h", "tok2")>>,
     <<>>, <<WithBindParam("p1", "v2")>>, <<WithBindParam("p3", "slice")>>,
     <<WithBindParam("p2", "v1")>>, <<WithBindParam("zz", "v1")>>,
     <<WithBindParam("zz", "v1"), WithBindParam("yy", "v1")>>,
     <<WithBindParam("zz", "v1"), WithAuthTokenSource("h", "tok1")>>,
     <<WithBindParam("p2", "v1"), WithAuthTokenSource("h", "tok1")>>,
     <<WithBindParam("p2", "v1"), WithAuthTokenSource("g", "tok2")>>,
     <<WithBindParam("p2", "v1"), WithBindParam("zz", "v1")>>,
     <<WithAuthTokenSource("g", "tok2")>>, <<WithAuthTokenSource("h", "tok1")>>,
     <<WithAuthTokenSource("h", "tok1"), WithAuthTokenSource("h", "tok2")>>,
     <<WithBindParam("p1", "v2"), WithAuthTokenSource("g", "tok2"),
       WithAuthTokenSource("h", "tok1")>>,
     <<WithBindParam("p3", "slice"), WithAuthTokenSource("h", "tok1")>>,
     <<WithStrict("true")>>, <<WithStrict("false")>>,
     <<WithStrict("false"), WithBindParam("zz", "v1")>>,
     <<WithStrict("false"), WithAuthTokenSource("h", "tok1")>>,
     <<WithStrict("true"), WithBindParam("p1", "v2")>>,
     <<WithStrict("true"), WithBindParam("p3", "slice")>>,
     <<WithStrict("true"), WithAuthTokenSource("g", "tok2")>>,
     <<WithStrict("true"), WithBindParam("p2", "v1"), WithAuthTokenSource("h", "tok1")>>,
     <<WithStrict("true"), WithStrict("false")>>,
     <<WithName("set2")>>, <<WithName("set2"), WithName("set3")>>}

\* tc.LoadTool(name, opts...)
LoadToolCall ==
    /\ calls < MaxLoads
    /\ \E name \in ToolNames \cup {"nope"}, opts \in LoadCallOptionLists, fetched \in BOOLEAN :
       \E pick \in PickFrom(unknownBound(name, opts)), headersOK \in {TRUE, fetched} :
            /\ returnTool("LoadTool", 0, name, opts, LoadToolResult(heap, name, fetched, opts, pick))
            /\ wire' = wire \o manifestRequests(
                            applyCallOptions(EmptyConfig, allOptions(defaultToolOptions, opts)),
                            headersOK, <<"api/tool", name>>)
    /\ calls' = calls + 1
    /\ UNCHANGED <<sessionBearing, initOnce, initErr, sessionId, ServerVersion, callers,
                   initResult, hookRuns, ensureSeen, lastReturn>>
    /\ UNCHANGED defaultToolOptions

\* tc.LoadToolset(opts...)
LoadToolsetCall ==
    /\ calls < MaxLoads
    /\ \E opts \in LoadCallOptionLists, fetched \in BOOLEAN, order \in Perms(ToolNames) :
       \E pickOf \in unknownPicks(opts), headersOK \in {TRUE, fetched} :
            /\ returnTools(opts, LoadToolsetResult(heap, fetched, opts, order, pickOf))
            /\ wire' = wire \o manifestRequests(
                            applyCallOptions(EmptyConfig, allOptions(defaultToolOptions, opts)),
                            headersOK,
                            <<"api/toolset",
                              applyCallOptions(EmptyConfig,
                                               allOptions(defaultToolOptions, opts)).cfg.Name>>)
    /\ calls' = calls + 1
    /\ UNCHANGED <<sessionBearing, initOnce, initErr, sessionId, ServerVersion, callers,
                   initResult, hookRuns, ensureSeen, lastReturn>>
    /\ UNCHANGED defaultToolOptions

InitLoad ==
    /\ heap = <<<<>>>> /\ tools = <<>> /\ lastOp = NoOp
    /\ defaultToolOptions \in DefaultOptionLists
    /\ sessionBearing = FALSE /\ initOnce = "idle" /\ initErr = Nil /\ sessionId = ""
    /\ ServerVersion = "" /\ callers = [c \in Callers |-> Idle] /\ wire = <<>>
    /\ initResult = NoResult /\ hookRuns = 0 /\ ensureSeen = {} /\ lastReturn = NoReturn
    /\ calls = 0

NextLoad ==
    \/ LoadToolCall
    \/ LoadToolsetCall

SpecLoad == InitLoad /\ [][NextLoad]_vars

(***************************************************************************)
(* The pure functions of the SDK, each applied once to arguments drawn     *)
(* from bounded sets: lastOp holds the arguments, then the call with its   *)
(* result.                                                                 *)
(***************************************************************************)
Args(fn, args) == [op |-> "args", fn |-> fn, args |-> args]
Applied(fn, args, out) == [op |-> fn, fn |-> fn, args |-> args, out |-> out]

\* Service lists of a parameter (authSources) and of a tool (authRequired).
AuthnLists == {<<"g">>, <<"h">>, <<"zz">>, <<"g", "h">>, <<"h", "g">>}
AuthzLists == AuthnLists \cup {<<>>, <<"g", "zz">>, <<"zz", "h", "g">>}
AuthnMaps ==
    {<<>>} \cup {("p1" :> a) : a \in AuthnLists}
           \cup {("p1" :> a) @@ ("p2" :> b) : a \in AuthnLists, b \in AuthnLists}
ProvidedSets == SUBSET {"g", "h", "yy"}

AuthInputs ==
    {Args("identifyAuthRequirements", [authn |-> n, authz |-> z, provided |-> p]) :
        n \in AuthnMaps, z \in AuthzLists, p \in ProvidedSets}

\* Parameters of every declared type; the array ones without Items, with
\* scalar items, and with items that are arrays themselves.
TypeParams ==
    {ParamR("p1", ty, <<>>, FALSE, <<>>) :
        ty \in {"string", "integer", "float", "boolean", "object", "array"}}
    \cup {ParamR("p1", "array", <<>>, FALSE, ItemOf(ty, <<>>)) :
        ty \in {"string", "integer", "float", "object", "array"}}
    \cup {ParamR("p1", "array", <<>>, FALSE, ItemOf("array", ItemOf(ty, <<>>))) :
        ty \in {"string", "boolean"}}

ScalarValues ==
    {StrVal("a"), IntVal("1"), Int64Val("1"), FloatVal("1.0"), BoolVal("true"), MapVal, NilVal}
FlatSlices ==
    {ArrVal(<<>>)} \cup {ArrVal(<<x>>) : x \in ScalarValues}
        \cup {ArrVal(<<StrVal("a"), x>>) : x \in ScalarValues}
NestedSlices ==
    {ArrVal(<<x>>) : x \in FlatSlices} \cup {ArrVal(<<ArrVal(<<StrVal("a")>>), x>>) : x \in FlatSlices}
        \cup {ArrVal(<<ArrVal(<<StrVal("a")>>), StrVal("b")>>)}
TypeValues == ScalarValues \cup FlatSlices \cup NestedSlices

TypeInputs ==
    {Args("validateType", [p |-> p, value |-> v]) : p \in TypeParams, v \in TypeValues}

\* tools/call results: up to three content blocks of several kinds, texts
\* empty or not.
Blocks == {Text(<<>>), Text(<<"A", " ">>), Text(<<"B">>), Image(<<"b">>),
           [type |-> "resource", text |-> <<"r">>]}
Contents ==
    {<<>>} \cup {<<a>> : a \in Blocks} \cup {<<a, b>> : a \in Blocks, b \in Blocks}
        \cup {<<a, b, c>> : a \in Blocks, b \in Blocks, c \in Blocks}
CallInputsFn ==
    {Args("InvokeTool", [isError |-> e, content |-> c]) : e \in BOOLEAN, c \in Contents}

\* tools/list results: the names of up to three tool definitions.
DefNames == {"", "toolA", "toolB"}
DefLists ==
    {<<>>} \cup {<<a>> : a \in DefNames} \cup {<<a, b>> : a \in DefNames, b \in DefNames}
        \cup {<<a, b, c>> : a \in DefNames, b \in DefNames, c \in DefNames}
ListInputsFn == {Args("ListTools", d) : d \in DefLists}

(***************************************************************************)
(* The REST transport's manifest fetch (ToolboxTransport.LoadManifest),    *)
(* from the outcome of its one GET: a header token that fails to resolve,  *)
(* a network failure, or a response with a status and a body that may     *)
(* fail to be read.                                                        *)
(***************************************************************************)
RestStatuses == {200, 201, 204, 302, 404, 500}
StatusText == [s \in RestStatuses |->
    CASE s = 200 -> "200 OK" [] s = 201 -> "201 Created" [] s = 204 -> "204 No Content"
      [] s = 302 -> "302 Found" [] s = 404 -> "404 Not Found" [] OTHER -> "500 Internal Server Error"]
RestBodies == {"", "{\"serverVersion\":\"1.0.0\",\"tools\":{\"toolA\":{}}}", "{}", "not json", "{\"error\":\"x\"}"}

\* json.Unmarshal(body, &manifest): fields that are absent stay zero.
decodeManifest(body) ==
    IF body = "{\"serverVersion\":\"1.0.0\",\"tools\":{\"toolA\":{}}}"
    THEN [err |-> Nil, val |-> <<"1.0.0", {"toolA"}>>]
    ELSE IF body \in {"{}", "{\"error\":\"x\"}"}
    THEN [err |-> Nil, val |-> <<"", {}>>]
    ELSE [err |-> Err("invalid JSON"), val |-> <<>>]

RestOutcomes ==
    [tokenFail : BOOLEAN, netFail : BOOLEAN, status : RestStatuses, body : RestBodies,
     readFail : BOOLEAN]

LoadManifest(o) ==
    IF o.tokenFail THEN [val |-> <<>>, err |-> Err("failed to apply client headers")]
    ELSE IF o.netFail THEN [val |-> <<>>, err |-> Err("failed to make HTTP request")]
    ELSE IF o.status # 200
    THEN [val |-> <<>>, err |-> <<"server returned non-OK status", StatusText[o.status], o.body>>]
    ELSE IF o.readFail THEN [val |-> <<>>, err |-> Err("failed to read response body")]
    ELSE IF decodeManifest(o.body).err # Nil
    THEN [val |-> <<>>, err |-> Wrap("unable to parse manifest correctly", decodeManifest(o.body).err)]
    ELSE [val |-> decodeManifest(o.body).val, err |-> Nil]

RestInputs == {Args("LoadManifest", o) : o \in RestOutcomes}

\* Option lists applied to a configuration: every list of up to three of
\* these options, and the two lists of four of TestApplyOptions.
FnOptions ==
    {WithName("MyTool"), WithName("AnotherName"), WithBindParam("p1", "v1"),
     WithBindParam("p1", "v2"), WithBindParam("p2", "v1"), WithStrict("true"),
     WithAuthTokenSource("g", "tok1"), NilOption}
FnOptionLists ==
    {<<>>} \cup {<<a>> : a \in FnOptions} \cup {<<a, b>> : a \in FnOptions, b \in FnOptions}
        \cup {<<a, b, c>> : a \in FnOptions, b \in FnOptions, c \in FnOptions}
        \cup {<<WithName("MyTool"), WithBindParam("p1", "v1"), WithName("AnotherName"),
                WithStrict("true")>>,
              <<WithName("MyTool"), NilOption, WithStrict("true"), WithBindParam("p1", "v1")>>}
FnConfigs == {EmptyConfig, [EmptyConfig EXCEPT !.Name = "set", !.nameSet = TRUE]}
OptionInputs ==
    {Args("applyOptions", [cfg |-> c, opts |-> o]) : c \in FnConfigs, o \in FnOptionLists}

(***************************************************************************)
(* ConvertToolDefinition: a tool definition of a tools/list result, as     *)
(* decoded JSON (map[string]any), converted to a ToolSchema. A JSON value  *)
(* is a string, a number, a boolean, a list or an object; a type assertion *)
(* that fails leaves the zero value (a nil map, a nil list, "").           *)
(***************************************************************************)
JStr(s) == [j |-> "string", s |-> s, elems |-> <<>>, fields |-> <<>>]
JNum(n) == [j |-> "number", s |-> n, elems |-> <<>>, fields |-> <<>>]
JBool(b) == [j |-> "bool", s |-> b, elems |-> <<>>, fields |-> <<>>]
JList(elems) == [j |-> "list", s |-> "", elems |-> elems, fields |-> <<>>]
JObj(fields) == [j |-> "object", s |-> "", elems |-> <<>>, fields |-> fields]
JAbsent == [j |-> "absent", s |-> "", elems |-> <<>>, fields |-> <<>>]

\* m[key] of a Go map, v.(map[string]any), v.([]any) and getString.
lookup(m, key) == IF key \in DOMAIN m THEN m[key] ELSE JAbsent
asMap(v) == IF v.j = "object" THEN v.fields ELSE <<>>
asList(v) == IF v.j = "list" THEN v.elems ELSE <<>>
getString(m, key) == IF lookup(m, key).j = "string" THEN lookup(m, key).s ELSE ""

\* The string entries of a list, in order (entries of another type are
\* passed over).
stringEntries(l) ==
    [i \in 1..Len(SelectSeq(l, LAMBDA e : e.j = "string")) |->
        SelectSeq(l, LAMBDA e : e.j = "string")[i].s]

requiredSet_properties(inputSchema) == DOMAIN asMap(lookup(inputSchema, "properties"))

requiredSet(inputSchema) ==
    {stringEntries(asList(lookup(inputSchema, "required")))[i] :
        i \in DOMAIN stringEntries(asList(lookup(inputSchema, "required")))}

RECURSIVE parseProperty(_, _, _)
parseProperty(name, definitionMap, isRequired) ==
    [name |-> name,
     type |-> getString(definitionMap, "type"),
     required |-> isRequired,
     authSources |-> <<>>,
     additionalProperties |->
        IF getString(definitionMap, "type") # "object" THEN <<>>
        ELSE IF lookup(definitionMap, "additionalProperties").j = "bool"
        THEN <<lookup(definitionMap, "additionalProperties").s>>
        ELSE IF lookup(definitionMap, "additionalProperties").j = "object"
        THEN <<parseProperty("", asMap(lookup(definitionMap, "additionalProperties")), FALSE)>>
        ELSE <<>>,
     items |->
        IF getString(definitionMap, "type") = "array"
             /\ lookup(definitionMap, "items").j = "object"
        THEN <<parseProperty("", asMap(lookup(definitionMap, "items")), FALSE)>>
        ELSE <<>>]

\* The parameter of one property, with the auth sources listed under its
\* name in paramAuth.
convertProperty(name, definition, paramAuth, required) ==
    [parseProperty(name, asMap(definition), name \in required)
        EXCEPT !.authSources = stringEntries(asList(lookup(paramAuth, name)))]

\* The loop over the properties in the order the map iteration takes;
\* properties whose definition is not an object are passed over.
RECURSIVE convertProperties(_, _, _, _)
convertProperties(order, properties, paramAuth, required) ==
    IF order = <<>> THEN <<>>
    ELSE IF properties[Head(order)].j # "object"
    THEN convertProperties(Tail(order), properties, paramAuth, required)
    ELSE <<convertProperty(Head(order), properties[Head(order)], paramAuth, required)>>
            \o convertProperties(Tail(order), properties, paramAuth, required)

convertSchema(order, inputSchema, meta, description) ==
    [description |-> description,
     parameters |-> convertProperties(order, asMap(lookup(inputSchema, "properties")),
                                      asMap(lookup(meta, "toolbox/authParam")),
                                      requiredSet(inputSchema)),
     authRequired |-> stringEntries(asList(lookup(meta, "toolbox/authInvoke")))]

ConvertToolDefinition(toolData, order) ==
    convertSchema(order, asMap(lookup(toolData, "inputSchema")),
                  asMap(lookup(toolData, "_meta")), getString(toolData, "description"))

\* Tool definitions: properties p1, p2 (and an array p3) whose definitions
\* are objects or not, required lists, and _meta with auth entries that are
\* lists of service names, lists with an entry of another type, or no list.
StringDef == JObj(("type" :> JStr("string")) @@ ("description" :> JStr("d")))
ArrayDef == JObj(("type" :> JStr("array")) @@ ("items" :> JObj("type" :> JStr("integer"))))
ObjectDef == JObj(("type" :> JStr("object")) @@ ("additionalProperties" :> JBool(TRUE)))
PropertyMaps ==
    {JAbsent, JObj(<<>>), JObj("p1" :> StringDef),
     JObj(("p1" :> StringDef) @@ ("p2" :> JStr("string"))),
     JObj(("p1" :> ArrayDef) @@ ("p2" :> ObjectDef)),
     JObj(("p1" :> StringDef) @@ ("p2" :> StringDef) @@ ("p3" :> JNum(1)))}
RequiredLists ==
    {JAbsent, JList(<<>>), JList(<<JStr("p1")>>), JList(<<JStr("p2"), JNum(5), JStr("p4")>>),
     JStr("p1")}
AuthParamMaps ==
    {JAbsent, JObj("p1" :> JList(<<JStr("g")>>)),
     JObj(("p2" :> JList(<<JStr("g"), JStr("h")>>)) @@ ("p4" :> JList(<<JStr("h")>>))),
     JObj(("p1" :> JStr("g")) @@ ("p2" :> JList(<<JStr("h"), JNum(7)>>))),
     JList(<<JStr("g")>>)}
AuthInvokeLists ==
    {JAbsent, JList(<<>>), JList(<<JStr("h")>>), JList(<<JStr("h"), JStr("g")>>),
     JList(<<JNum(7), JStr("g")>>), JStr("h")}
MetaMaps ==
    {JAbsent} \cup {JObj(("toolbox/authParam" :> pa) @@ ("toolbox/authInvoke" :> ia)) :
                        pa \in AuthParamMaps, ia \in AuthInvokeLists}
ToolDefinitions ==
    {("name" :> JStr("toolA")) @@ ("description" :> JStr("a tool")) @@ ("_meta" :> meta)
        @@ ("inputSchema" :> JObj(("type" :> JStr("object")) @@ ("properties" :> props)
                                     @@ ("required" :> req))) :
        meta \in MetaMaps, props \in PropertyMaps, req \in RequiredLists}
ConvertInputs == {Args("ConvertToolDefinition", d) : d \in ToolDefinitions}

PropertiesOf(toolData) == asMap(lookup(asMap(lookup(toolData, "inputSchema")), "properties"))

FnInputs ==
    AuthInputs \cup TypeInputs \cup CallInputsFn \cup ListInputsFn \cup RestInputs
        \cup OptionInputs \cup ConvertInputs

applyFn(fn, out) ==
    /\ lastOp.op = "args" /\ lastOp.fn = fn
    /\ lastOp' = Applied(fn, lastOp.args, out)
    /\ UNCHANGED <<sessionBearing, initOnce, initErr, sessionId, ServerVersion, callers, wire,
                   initResult, hookRuns, ensureSeen, lastReturn, calls, heap, tools,
                   defaultToolOptions>>

\* identifyAuthRequirements(reqAuthnParams, reqAuthzTokens, authTokenSources)
IdentifyAuthRequirementsCall ==
    /\ lastOp.fn = "identifyAuthRequirements"
    /\ applyFn("identifyAuthRequirements",
               identifyAuthRequirements(lastOp.args.authn, lastOp.args.authz, lastOp.args.provided))

\* p.validateType(value)
ValidateTypeCall ==
    /\ lastOp.fn = "validateType"
    /\ applyFn("validateType", validateType(lastOp.args.p, lastOp.args.value))

\* InvokeTool from the decoded CallToolResult on.
InvokeToolResultCall ==
    /\ lastOp.fn = "InvokeTool"
    /\ applyFn("InvokeTool", invokeResult(lastOp.args))

\* ListTools from the decoded ListToolsResult on.
ListToolsResultCall ==
    /\ lastOp.fn = "ListTools"
    /\ applyFn("ListTools", listManifest(lastOp.args))

\* ToolboxTransport.GetTool / ListTools: LoadManifest on the URL of the tool
\* or of the toolset.
LoadManifestCall ==
    /\ lastOp.fn = "LoadManifest"
    /\ applyFn("LoadManifest", LoadManifest(lastOp.args))

\* The options of a list applied to a configuration one after the other,
\* each tested for nil first.
ApplyOptionsCall ==
    /\ lastOp.fn = "applyOptions"
    /\ applyFn("applyOptions", applyCallOptions(lastOp.args.cfg, lastOp.args.opts))

\* ConvertToolDefinition, the properties visited in any order.
ConvertToolDefinitionCall ==
    /\ lastOp.fn = "ConvertToolDefinition"
    /\ \E order \in Perms(DOMAIN PropertiesOf(lastOp.args)) :
          applyFn("ConvertToolDefinition", ConvertToolDefinition(lastOp.args, order))

InitFn ==
    /\ lastOp \in FnInputs
    /\ heap = <<<<>>>> /\ tools = <<>> /\ defaultToolOptions = <<>>
    /\ sessionBearing = FALSE /\ initOnce = "idle" /\ initErr = Nil /\ sessionId = ""
    /\ ServerVersion = "" /\ callers = [c \in Callers |-> Idle] /\ wire = <<>>
    /\ initResult = NoResult /\ hookRuns = 0 /\ ensureSeen = {} /\ lastReturn = NoReturn
    /\ calls = 0

NextFn ==
    \/ IdentifyAuthRequirementsCall
    \/ ValidateTypeCall
    \/ InvokeToolResultCall
    \/ ListToolsResultCall
    \/ LoadManifestCall
    \/ ApplyOptionsCall
    \/ ConvertToolDefinitionCall

SpecFn == InitFn /\ [][NextFn]_vars

(***************************************************************************)
(* Claims about the transport, checked under Spec.                         *)
(***************************************************************************)
NumSent(method) == Cardinality({i \in DOMAIN wire : wire[i].method = method})

PastDo(c) == callers[c].pc \notin {"idle", "ensure"}

\* C1: whatever number of callers call EnsureInitialized (directly or through
\* ListTools, GetTool, InvokeTool), concurrently or one after the other, the
\* handshake hook runs at most once and so at most one initialize request is
\* sent; as soon as one call has got past Once.Do the hook has run exactly once.
C1_HandshakeAtMostOnce ==
    /\ hookRuns <= 1
    /\ NumSent("initialize") <= hookRuns
    /\ ((\E c \in Callers : PastDo(c)) \/ lastReturn.op # "none") => hookRuns = 1
    /\ (initOnce = "done" /\ initErr # ctxErr) => NumSent("initialize") = 1

\* Two callers are past EnsureInitialized at once, one of which did not run the hook.
C1_Witness ==
    /\ hookRuns = 1
    /\ initOnce = "done"
    /\ \A c \in Callers : callers[c].pc = "ensured"
    /\ \E c \in Callers : ~callers[c].late

\* C2: every EnsureInitialized call on the transport returns the same outcome,
\* the result of the one handshake execution: never nil for one caller and an
\* error for another.
C2_SameOutcome ==
    /\ Cardinality(ensureSeen) <= 1
    /\ ensureSeen # {} => (initOnce = "done" /\ ensureSeen = {initErr})
    /\ \A c \in Callers : callers[c].pc = "ensured" => callers[c].err = initErr

\* A failed handshake has been returned to a concurrent caller and to a later one.
C2_Witness ==
    /\ initErr # Nil
    /\ \E c, d \in Callers :
        /\ callers[c].pc = "ensured" /\ ~callers[c].late /\ callers[c].err = initErr
        /\ callers[d].pc = "ensured" /\ callers[d].late /\ callers[d].err = initErr

Returns(c) == callers[c].pc = "ensured" /\ callers'[c].pc = "idle"

\* C3: once the handshake has failed, no step sends an HTTP request or runs the
\* handshake again, and every ListTools, GetTool and InvokeTool that returns,
\* returns that cached failure.
C3_FailureIsFinal ==
    [][(initOnce = "done" /\ initErr # Nil) =>
            /\ wire' = wire
            /\ initErr' = initErr
            /\ hookRuns' = hookRuns
            /\ \A c \in Callers : Returns(c) => lastReturn'.err = initErr]_vars

\* A ListTools/GetTool/InvokeTool made after the failure has returned it.
C3_Witness ==
    /\ initOnce = "done"
    /\ initErr = Err("MCP version mismatch")
    /\ lastReturn.op \in {"ListTools", "GetTool", "InvokeTool"}
    /\ lastReturn.err = initErr
    /\ calls = MaxCalls
    /\ \A c \in Callers : callers[c].pc = "idle"

IsCall(i) == wire[i].method \in {"tools/list", "tools/call"}

\* C4: every tools/list or tools/call request on the wire comes after exactly
\* one initialize request and one notifications/initialized message, both
\* answered successfully; none is sent before or while the handshake runs.
C4_HandshakeBeforeCalls ==
    \A i \in DOMAIN wire : IsCall(i) =>
        /\ i > 2
        /\ wire[1].method = "initialize" /\ wire[1].done = "ok"
        /\ wire[2].method = "notifications/initialized" /\ wire[2].done = "ok"
        /\ NumSent("initialize") = 1
        /\ NumSent("notifications/initialized") = 1
        /\ initOnce = "done"

\* Two callers raced for the handshake and both have sent their request.
C4_Witness ==
    /\ Len(wire) = 4
    /\ IsCall(3) /\ IsCall(4)
    /\ \A c \in Callers : ~callers[c].late

Ready == initOnce = "done" /\ initErr = Nil

\* C5: the transport is Ready (EnsureInitialized returns nil) only if the
\* server answered initialize with the client's protocol version and a tools
\* capability, in the session-bearing version with a non-empty session id that
\* is now stored, and the initialized notification got a success status.
C5_ReadyOnlyIfChecked ==
    (Ready \/ Nil \in ensureSeen) =>
        /\ initResult.pv = ProtocolVersion
        /\ initResult.tools
        /\ sessionBearing => (initResult.sid # "" /\ sessionId = initResult.sid)
        /\ Len(wire) >= 2
        /\ wire[2].method = "notifications/initialized" /\ wire[2].done = "ok"

\* The session-bearing transport is Ready and EnsureInitialized has returned nil.
C5_Witness == Ready /\ sessionBearing /\ ensureSeen = {Nil} /\ sessionId = "s2"

\* C6: in the session-bearing transport every tools/list and tools/call
\* request carries the Mcp-Session-Id the server returned from initialize, and
\* the initialize request carries none.
C6_SessionIdOnCalls ==
    sessionBearing =>
        \A i \in DOMAIN wire :
            /\ IsCall(i) => (wire[i].sid # "" /\ wire[i].sid = initResult.sid)
            /\ wire[i].method = "initialize" => wire[i].sid = ""

\* Both a tools/list and a tools/call went out with the session id.
C6_Witness ==
    /\ sessionBearing
    /\ \E i, j \in DOMAIN wire :
        /\ wire[i].method = "tools/list" /\ wire[i].sid = "s2"
        /\ wire[j].method = "tools/call" /\ wire[j].sid = "s2"

(***************************************************************************)
(* Tool descriptors: what a descriptor holds, read through the heap.       *)
(***************************************************************************)
Unbound(h, tt) == At(h, tt.parameters)
UnboundNames(h, tt) == {p.name : p \in Range(Unbound(h, tt))}
BoundNames(h, tt) == DOMAIN At(h, tt.boundParams)
AuthSources(h, tt) == At(h, tt.authTokenSources)

\* A bound value with the elements of its slice.
BoundValue(h, v) == [k |-> v.k, v |-> v.v, elems |-> At(h, v.a)]

View(h, tt) ==
    [name |-> tt.name,
     parameters |-> Unbound(h, tt),
     boundParams |-> [n \in BoundNames(h, tt) |-> BoundValue(h, At(h, tt.boundParams)[n])],
     authTokenSources |-> AuthSources(h, tt),
     requiredAuthnParams |-> [n \in DOMAIN At(h, tt.requiredAuthnParams) |->
                                At(h, At(h, tt.requiredAuthnParams)[n])],
     requiredAuthzTokens |-> At(h, tt.requiredAuthzTokens)]

\* The stores a descriptor's collections live in.
Stores(h, tt) ==
    ({tt.parameters, tt.boundParams, tt.authTokenSources, tt.requiredAuthnParams,
      tt.requiredAuthzTokens, tt.clientHeaderSources}
     \cup {At(h, tt.boundParams)[n].a : n \in BoundNames(h, tt)}
     \cup {At(h, tt.requiredAuthnParams)[n] : n \in DOMAIN At(h, tt.requiredAuthnParams)})
    \ {0}

RECURSIVE Ancestors(_)
Ancestors(t) ==
    IF tools[t].parent = 0 THEN {} ELSE {tools[t].parent} \cup Ancestors(tools[t].parent)

\* C7: a ToolFrom call, successful or failed, leaves every descriptor that
\* existed before it (its parent among them) as it was: name, unbound
\* parameters, bound parameters with the elements of their slices, auth token
\* sources, unmet auth requirements. The child shares no store with a
\* descriptor that existed before, and a later write to the elements of a
\* bound slice of a descriptor shows in none of its ancestors.
C7_ParentUnchanged ==
    [][/\ lastOp'.op = "ToolFrom" =>
            \A t \in DOMAIN tools :
                /\ View(heap', tools'[t]) = View(heap, tools[t])
                /\ lastOp'.made = 1 =>
                        Stores(heap', tools'[Len(tools')]) \cap Stores(heap', tools'[t]) = {}
       /\ lastOp'.op = "WriteBoundSlice" =>
            \A t \in Ancestors(lastOp'.tool) : View(heap', tools'[t]) = View(heap, tools[t])
      ]_vars

\* A child whose bound slice was written to after the derivation, the parent
\* holding the slice as it was bound.
C7_Witness ==
    /\ lastOp.op = "WriteBoundSlice"
    /\ tools[lastOp.tool].parent # 0
    /\ lastOp.name \in BoundNames(heap, tools[tools[lastOp.tool].parent])
    /\ View(heap, tools[lastOp.tool]).boundParams[lastOp.name].elems = <<"X", "b">>
    /\ View(heap, tools[tools[lastOp.tool].parent]).boundParams[lastOp.name].elems = <<"a", "b">>

\* C8: the unbound parameter list of every descriptor, loaded or derived, is
\* the parameters of its schema without the bound names and without the
\* auth-gated parameters, in the order of the schema; no name is both unbound
\* and bound.
C8_UnboundIsSchemaMinusBoundMinusGated ==
    \A t \in DOMAIN tools :
        /\ Unbound(heap, tools[t]) =
                SelectSeq(tools[t].schema.parameters,
                          LAMBDA p : p.name \notin BoundNames(heap, tools[t])
                                     /\ p.authSources = <<>>)
        /\ UnboundNames(heap, tools[t]) \cap BoundNames(heap, tools[t]) = {}

\* A derived descriptor with a binding its parent does not have, an unbound
\* parameter left, and an auth-gated parameter in its schema.
C8_Witness ==
    \E t \in DOMAIN tools :
        /\ tools[t].parent # 0
        /\ BoundNames(heap, tools[t]) # BoundNames(heap, tools[tools[t].parent])
        /\ Unbound(heap, tools[t]) # <<>>
        /\ \E p \in Range(tools[t].schema.parameters) : p.authSources # <<>>

\* The option i of the last ToolFrom call is a binding.
IsBinding(i) == lastOp.op = "ToolFrom" /\ i \in DOMAIN lastOp.opts /\ lastOp.opts[i].k = "bind"

OverrideErr(n) == <<"cannot override existing bound parameter", n>>
UnknownErr(n) == <<"unable to bind parameter: no parameter named", n>>

\* What the claim says of the binding i of the last ToolFrom call.
BindingOutcome(i) ==
    LET n == lastOp.opts[i].key
        parent == tools[lastOp.tool]
    IN  /\ lastOp.err = Nil <=> n \in UnboundNames(heap, parent)
        /\ lastOp.err = Nil =>
                /\ n \notin UnboundNames(heap, tools[Len(tools)])
                /\ n \in BoundNames(heap, tools[Len(tools)])
        /\ n \in BoundNames(heap, parent) => lastOp.err = OverrideErr(n)
        /\ n \notin UnboundNames(heap, parent) /\ n \notin BoundNames(heap, parent) =>
                lastOp.err = UnknownErr(n)

\* Every option of the last ToolFrom call but the option i is one that
\* ToolFrom accepts: no name, no strict flag, no field set twice, no auth
\* source the parent holds, no binding but of an unbound parameter.
OthersAccepted(i) ==
    LET parent == tools[lastOp.tool] IN
    /\ \A j, k \in DOMAIN lastOp.opts :
            j # k => ~(lastOp.opts[j].k = lastOp.opts[k].k /\ lastOp.opts[j].key = lastOp.opts[k].key)
    /\ \A j \in DOMAIN lastOp.opts \ {i} :
        /\ lastOp.opts[j].k \in {"bind", "auth"}
        /\ lastOp.opts[j].k = "auth" => lastOp.opts[j].key \notin DOMAIN AuthSources(heap, parent)
        /\ lastOp.opts[j].k = "bind" => lastOp.opts[j].key \in UnboundNames(heap, parent)

\* C9: a ToolFrom call with a binding for n, every other option of which is
\* accepted, succeeds iff n is in the parent's unbound list, and then n is
\* absent from the child's unbound list and present in the child's bound
\* parameters; it fails with the override error if n is bound in the parent
\* and with the unknown-parameter error if n is neither unbound nor bound.
C9_BindingAmongAcceptedOptions ==
    \A i \in DOMAIN lastOp.opts : IsBinding(i) /\ OthersAccepted(i) => BindingOutcome(i)

\* C9 as stated: whatever else the call carries.
C9_BindingAlone ==
    \A i \in DOMAIN lastOp.opts : IsBinding(i) => BindingOutcome(i)

\* A call with two options, one the binding of a parameter that the parent
\* has bound, which fails with the override error.
C9_Witness ==
    \E i \in DOMAIN lastOp.opts :
        /\ IsBinding(i) /\ OthersAccepted(i)
        /\ Len(lastOp.opts) = 2
        /\ lastOp.opts[i].key \in BoundNames(heap, tools[lastOp.tool])
        /\ lastOp.err = OverrideErr(lastOp.opts[i].key)

\* C10: every descriptor holds the auth sources of its parent, each with the
\* parent's token provider, and a ToolFrom call with an auth source for a
\* service that the descriptor holds fails.
C10_AuthSourcesWriteOnce ==
    /\ \A t \in DOMAIN tools :
            tools[t].parent # 0 =>
                \A s \in DOMAIN AuthSources(heap, tools[tools[t].parent]) :
                    /\ s \in DOMAIN AuthSources(heap, tools[t])
                    /\ AuthSources(heap, tools[t])[s] = AuthSources(heap, tools[tools[t].parent])[s]
    /\ lastOp.op = "ToolFrom" =>
            ((\E i \in DOMAIN lastOp.opts :
                    /\ lastOp.opts[i].k = "auth"
                    /\ lastOp.opts[i].key \in DOMAIN AuthSources(heap, tools[lastOp.tool]))
                => lastOp.err # Nil)

\* A ToolFrom call on a derived descriptor, with another provider for the
\* service that the derivation of that descriptor had set, which fails.
C10_Witness ==
    /\ lastOp.op = "ToolFrom"
    /\ lastOp.opts = <<WithAuthTokenSource("g", "tok2")>>
    /\ lastOp.err = <<"cannot override existing auth token source", "g">>
    /\ tools[lastOp.tool].parent # 0
    /\ "g" \notin DOMAIN AuthSources(heap, tools[tools[lastOp.tool].parent])
    /\ AuthSources(heap, tools[lastOp.tool])["g"] = "tok1"

(***************************************************************************)
(* Claims about Invoke, checked under SpecInvoke.                          *)
(***************************************************************************)
Services == {"g", "h"}

IsPermissionErr(e) == e \in {PermissionErr(s) : s \in Services}

\* The descriptor of the last Invoke.
Invoked == tools[lastOp.tool]

\* Every auth-gated parameter of the schema has one of its alternative
\* services among the descriptor's auth token sources, and so has the
\* tool-level list unless it is empty.
OneAlternativeEach(h, tt) ==
    /\ \A p \in Range(tt.schema.parameters) :
            isAuthGated(p) => Range(p.authSources) \cap DOMAIN AuthSources(h, tt) # {}
    /\ \/ tt.schema.authRequired = <<>>
       \/ Range(tt.schema.authRequired) \cap DOMAIN AuthSources(h, tt) # {}

\* The services the schema lists, for a parameter or for the tool.
SchemaServices(tt) ==
    UNION {Range(p.authSources) : p \in Range(tt.schema.parameters)}
        \cup Range(tt.schema.authRequired)

\* C11: an Invoke passes the permission step iff every auth-gated parameter
\* has one of its alternative services among the descriptor's auth token
\* sources and the tool-level list is empty or has one of its services among
\* them; otherwise it fails with a permission error naming a missing service.
C11_PermissionIffOneAlternative ==
    lastOp.op = "Invoke" =>
        IF OneAlternativeEach(heap, Invoked)
        THEN ~IsPermissionErr(lastOp.err)
        ELSE \E s \in SchemaServices(Invoked) \ DOMAIN AuthSources(heap, Invoked) :
                lastOp.err = PermissionErr(s)

IsPayloadErr(e) == Len(e) > 0 /\ e[1] = "tool payload processing failed"

IsUnexpectedErr(e) == IsPayloadErr(e) /\ e[2] = "unexpected parameter provided"

IsResolveErr(e) == IsPayloadErr(e) /\ e[2] = "failed to resolve bound parameter function for"

\* The payload error is the type error of an args value.
IsTypeErr(e) == IsPayloadErr(e) /\ ~IsUnexpectedErr(e) /\ ~IsResolveErr(e)

\* C12: an Invoke that fails at the permission check, at the validation of
\* the payload (unexpected key, type mismatch) or at the resolution of a
\* bound-parameter provider hands no request to the HTTP client.
C12_NoRequestBeforeValidation ==
    [][(calls' = calls + 1 /\ (IsPermissionErr(lastOp'.err) \/ IsPayloadErr(lastOp'.err)))
            => wire' = wire]_vars

\* A second Invoke whose provider failed, after a first one that was
\* dispatched: the wire holds the request of the first one only.
C12_Witness ==
    /\ lastOp.op = "Invoke" /\ calls = 2
    /\ IsResolveErr(lastOp.err)
    /\ Len(wire) = 1

\* The last Invoke handed a request to the HTTP client.
Dispatched == lastOp.op = "Invoke" /\ lastOp.reqs # <<>>

\* The value bound to the name n of the descriptor, as a payload carries it:
\* what the provider returned in the last Invoke, or the bound literal.
BoundOrProvided(n) ==
    IF At(heap, Invoked.boundParams)[n].k = "func" THEN lastOp.ret[n].val
    ELSE IF At(heap, Invoked.boundParams)[n].k = "slice"
    THEN ArrVal([i \in DOMAIN BoundValue(heap, At(heap, Invoked.boundParams)[n]).elems |->
                    StrVal(BoundValue(heap, At(heap, Invoked.boundParams)[n]).elems[i])])
    ELSE StrVal(At(heap, Invoked.boundParams)[n].v)

\* C13: the payload of a dispatched Invoke has, for each bound parameter, the
\* bound literal or the value its provider returned during this Invoke,
\* whatever the caller passed under that name, and its keys are the caller's
\* keys that are unbound parameters plus all bound names.
C13_PayloadOfDispatch ==
    Dispatched =>
        /\ DOMAIN lastOp.reqs[1].payload =
                (DOMAIN lastOp.input \cap UnboundNames(heap, Invoked))
                    \cup BoundNames(heap, Invoked)
        /\ \A n \in BoundNames(heap, Invoked) :
                lastOp.reqs[1].payload[n] = BoundOrProvided(n)

\* A dispatched Invoke whose caller passed a value under the name of a
\* parameter bound to a provider: the payload has the provider's value.
C13_Witness ==
    /\ Dispatched
    /\ "p4" \in BoundNames(heap, Invoked) /\ "p4" \in DOMAIN lastOp.input
    /\ At(heap, Invoked.boundParams)["p4"].k = "func"
    /\ lastOp.input["p4"] = StrVal("mine")
    /\ lastOp.ret["p4"] = Returned(StrVal("r2"))
    /\ lastOp.reqs[1].payload["p4"] = StrVal("r2")
    /\ DOMAIN lastOp.reqs[1].payload = {"p1", "p4"}

\* The args keys of the last Invoke that are neither an unbound parameter
\* nor a bound name of the descriptor.
UnexpectedKeys ==
    DOMAIN lastOp.input \ (UnboundNames(heap, Invoked) \cup BoundNames(heap, Invoked))

\* The args keys of the last Invoke that are unbound parameters given a
\* value of another type.
MistypedKeys ==
    {k \in DOMAIN lastOp.input \cap UnboundNames(heap, Invoked) :
        validateType(paramSchema(heap, Invoked)[k], lastOp.input[k]) # Nil}

UnexpectedFailure(k) == Wrap("tool payload processing failed", UnexpectedErr(k))

\* C14 as stated: an Invoke with an args key that is neither an unbound
\* parameter nor a bound name fails with an 'unexpected parameter' error.
C14_UnexpectedKeyAlwaysReported ==
    (lastOp.op = "Invoke" /\ UnexpectedKeys # {}) =>
        \E k \in UnexpectedKeys : lastOp.err = UnexpectedFailure(k)

\* C14: an Invoke that passes the permission step with an args key that is
\* neither an unbound parameter nor a bound name sends no request and fails
\* with an 'unexpected parameter' error naming such a key, or, when args also
\* gives an unbound parameter a value of the wrong type, with that type error.
C14_UnexpectedKeyRejected ==
    (lastOp.op = "Invoke" /\ ~IsPermissionErr(lastOp.err) /\ UnexpectedKeys # {}) =>
        /\ lastOp.reqs = <<>>
        /\ \/ \E k \in UnexpectedKeys : lastOp.err = UnexpectedFailure(k)
           \/ MistypedKeys # {} /\ IsTypeErr(lastOp.err)
        /\ MistypedKeys = {} => \E k \in UnexpectedKeys : lastOp.err = UnexpectedFailure(k)

\* An Invoke, on a descriptor whose auth requirement is met, whose args name
\* the auth-gated parameter p2: it fails with the unexpected-parameter error.
C14_Witness ==
    /\ lastOp.op = "Invoke"
    /\ "p2" \in DOMAIN lastOp.input /\ "p2" \in schemaNames(Invoked.schema)
    /\ MistypedKeys = {}
    /\ lastOp.err = UnexpectedFailure("p2")

\* The unbound parameters that the schema marks as required and the args
\* of the last Invoke omit.
MissingRequired ==
    {q.name : q \in {r \in Range(Unbound(heap, Invoked)) :
                        r.required /\ r.name \notin DOMAIN lastOp.input}}

\* C15: an Invoke whose args omit a required unbound parameter fails, and
\* the failure is found before any request is handed to the HTTP client.
C15_MissingRequiredRejected ==
    (lastOp.op = "Invoke" /\ MissingRequired # {}) =>
        lastOp.err # Nil /\ lastOp.reqs = <<>>

(***************************************************************************)
(* Claims about LoadTool and LoadToolset, checked under SpecLoad.          *)
(***************************************************************************)
\* The options given to the last call: the client's defaults, then the
\* call's own.
Given == defaultToolOptions \o lastOp.opts

SameField(o1, o2) == o1.k = o2.k /\ (o1.k \in {"bind", "auth"} => o1.key = o2.key)

\* The positions of Given that set a field an earlier position has set.
Repeats == {j \in DOMAIN Given : \E i \in 1..(j - 1) : SameField(Given[i], Given[j])}

SuppliedBound == {Given[i].key : i \in {j \in DOMAIN Given : Given[j].k = "bind"}}
SuppliedAuth == {Given[i].key : i \in {j \in DOMAIN Given : Given[j].k = "auth"}}
StrictGiven == \E i \in DOMAIN Given : Given[i].k = "strict" /\ Given[i].val = "true"

\* The tool binds the name: it is a parameter of its schema that no service
\* gates. The tool uses the service: a parameter or the tool lists it.
ConsumesBound(schema, n) ==
    \E q \in Range(schema.parameters) : q.name = n /\ q.authSources = <<>>
ConsumesAuth(schema, s) ==
    \/ \E q \in Range(schema.parameters) : s \in Range(q.authSources)
    \/ s \in Range(schema.authRequired)
ConsumesAll(schema) ==
    /\ \A n \in SuppliedBound : ConsumesBound(schema, n)
    /\ \A s \in SuppliedAuth : ConsumesAuth(schema, s)

AbsentFrom(schema) == SuppliedBound \ schemaNames(schema)

FetchErrs == {Wrap("failed to load tool manifest", Err("transport")),
              Wrap("failed to load toolset manifest", Err("transport"))}

\* The last call got its configuration and its manifest.
Fetched == Repeats = {} /\ NilOption \notin Range(Given) /\ lastOp.err \notin FetchErrs

UnknownLoadErr(n) ==
    <<"failed to create toolbox tool from schema",
      "unable to bind parameter: no parameter named", n>>

LastReturned == SubSeq(tools, Len(tools) - lastOp.made + 1, Len(tools))
\* The last call returned one descriptor per tool of the manifest.
OnePerTool ==
    /\ lastOp.err = Nil
    /\ lastOp.made = Cardinality(ToolNames)
    /\ {LastReturned[i].name : i \in DOMAIN LastReturned} = ToolNames

ConsumedSomewhere ==
    /\ \A n \in SuppliedBound : \E t \in ToolNames : ConsumesBound(Manifest[t], n)
    /\ \A s \in SuppliedAuth : \E t \in ToolNames : ConsumesAuth(Manifest[t], s)

\* C17: a LoadToolset without the strict flag returns one descriptor per tool
\* of the manifest iff every supplied bound name and every supplied service
\* was consumed by at least one tool; otherwise it fails.
C17_LenientIffConsumedSomewhere ==
    (lastOp.op = "LoadToolset" /\ Fetched /\ ~StrictGiven) =>
        /\ OnePerTool <=> ConsumedSomewhere
        /\ ~ConsumedSomewhere => (lastOp.err # Nil /\ lastOp.made = 0)

\* A lenient LoadToolset given a binding both tools take, a service only
\* toolA uses and a service only toolB uses: it returns both descriptors.
C17_Witness ==
    /\ lastOp.op = "LoadToolset" /\ lastOp.err = Nil /\ lastOp.made = 2
    /\ defaultToolOptions = <<>>
    /\ lastOp.opts = <<WithBindParam("p1", "v2"), WithAuthTokenSource("g", "tok2"),
                        WithAuthTokenSource("h", "tok1")>>
    /\ ~ConsumesAuth(Manifest["toolB"], "g") /\ ~ConsumesAuth(Manifest["toolA"], "h")
    /\ Len(tools) = 2

\* Every tool of the manifest consumes every supplied key.
ConsumedEverywhere == \A t \in ToolNames : ConsumesAll(Manifest[t])

\* C18: a LoadToolset with the strict flag fails, returning no descriptor,
\* iff some tool does not consume every supplied bound parameter and every
\* supplied auth source; otherwise it returns one descriptor per tool.
C18_StrictIffConsumedEverywhere ==
    (lastOp.op = "LoadToolset" /\ Fetched /\ StrictGiven) =>
        IF ConsumedEverywhere THEN OnePerTool
        ELSE lastOp.err # Nil /\ lastOp.made = 0

\* A strict LoadToolset given the service of toolA alone fails on toolB and
\* returns nothing.
C18_Witness ==
    /\ lastOp.op = "LoadToolset" /\ defaultToolOptions = <<>>
    /\ lastOp.opts = <<WithStrict("true"), WithAuthTokenSource("g", "tok2")>>
    /\ lastOp.err = UnusedErr({"g"}, {})
    /\ lastOp.made = 0 /\ tools = <<>>

\* The supplied keys that the tool t does not consume, and those that no tool
\* consumes.
UnusedAuthOf(t) == {s \in SuppliedAuth : ~ConsumesAuth(Manifest[t], s)}
UnusedBoundOf(t) == {n \in SuppliedBound : ~ConsumesBound(Manifest[t], n)}
UnusedAuthAnywhere == {s \in SuppliedAuth : \A t \in ToolNames : s \in UnusedAuthOf(t)}
UnusedBoundAnywhere == {n \in SuppliedBound : \A t \in ToolNames : n \in UnusedBoundOf(t)}

IsUnusedErr(e) == Len(e) = 5 /\ e[1] = "validation failed"

\* The failure on a bound name that is no parameter of the tool.
IsAbsentErr(e) ==
    /\ Len(e) \in {3, 4}
    /\ e[Len(e) - 1] = "unable to bind parameter: no parameter named"

\* The keys a failure lists.
KeysListed(e) ==
    IF IsUnusedErr(e) THEN e[3] \cup e[5]
    ELSE IF IsAbsentErr(e) THEN {e[Len(e)]}
    ELSE {}

\* C19 as stated: a LoadTool or LoadToolset that fails because supplied keys
\* were not consumed returns a failure that lists every unused key.
C19_EveryUnusedKeyListed ==
    (lastOp.op \in {"LoadTool", "LoadToolset"}
        /\ (IsUnusedErr(lastOp.err) \/ IsAbsentErr(lastOp.err))) =>
        IF lastOp.op = "LoadTool"
        THEN UnusedAuthOf(lastOp.name) \cup UnusedBoundOf(lastOp.name) \subseteq KeysListed(lastOp.err)
        ELSE IF StrictGiven
        THEN \E t \in ToolNames :
                /\ UnusedAuthOf(t) \cup UnusedBoundOf(t) # {}
                /\ UnusedAuthOf(t) \cup UnusedBoundOf(t) \subseteq KeysListed(lastOp.err)
        ELSE UnusedAuthAnywhere \cup UnusedBoundAnywhere \subseteq KeysListed(lastOp.err)

\* C19: the validation failure of LoadTool and LoadToolset lists every unused
\* auth service and every unused bound name (of the tool in LoadTool, of the
\* failing tool in strict mode, of the toolset in lenient mode); the failure
\* on a bound name absent from a schema, met first in LoadTool and in strict
\* mode, names one absent name only.
C19_ValidationFailureListsAllUnused ==
    lastOp.op \in {"LoadTool", "LoadToolset"} =>
        /\ IsUnusedErr(lastOp.err) =>
                IF lastOp.op = "LoadTool"
                THEN lastOp.err = UnusedErr(UnusedAuthOf(lastOp.name), UnusedBoundOf(lastOp.name))
                ELSE IF StrictGiven
                THEN \E t \in ToolNames :
                        lastOp.err = UnusedErr(UnusedAuthOf(t), UnusedBoundOf(t))
                ELSE lastOp.err = UnusedErr(UnusedAuthAnywhere, UnusedBoundAnywhere)
        /\ IsAbsentErr(lastOp.err) =>
                /\ lastOp.op = "LoadTool" \/ StrictGiven
                /\ \E t \in ToolNames : KeysListed(lastOp.err) \subseteq AbsentFrom(Manifest[t])
        /\ (Fetched /\ lastOp.op = "LoadToolset" /\ ~StrictGiven) => ~IsAbsentErr(lastOp.err)

\* A LoadTool of toolA given a binding for its auth-gated p2 and the service
\* h it does not use: one failure lists both.
C19_Witness ==
    /\ lastOp.op = "LoadTool" /\ lastOp.name = "toolA" /\ defaultToolOptions = <<>>
    /\ lastOp.opts = <<WithBindParam("p2", "v1"), WithAuthTokenSource("h", "tok1")>>
    /\ lastOp.err = UnusedErr({"h"}, {"p2"})

\* The failure of an option that sets a field already set.
AlreadySetErr(o) ==
    IF o.k = "name" THEN Err("name is already set and cannot be overridden")
    ELSE IF o.k = "strict" THEN Err("strict is already set")
    ELSE IF o.k = "bind" THEN <<"duplicate parameter binding: parameter is already set", o.key>>
    ELSE <<"authentication source is already set", o.key>>

FirstRepeat == CHOOSE j \in Repeats : \A k \in Repeats : j <= k

\* The first option of Given that sets the field the option o sets.
FirstSetting(o) ==
    Given[CHOOSE i \in DOMAIN Given :
            SameField(Given[i], o) /\ \A j \in 1..(i - 1) : ~SameField(Given[j], o)]

\* The descriptor holds the value of the binding o, if it holds its name.
HoldsBinding(tt, o) ==
    o.key \in BoundNames(heap, tt) =>
        IF o.val = "slice" THEN At(heap, tt.boundParams)[o.key].k = "slice"
        ELSE At(heap, tt.boundParams)[o.key] = Lit(o.val)

\* C20: LoadTool and LoadToolset apply the client's default options and then
\* the call's options to one configuration: a call in which a field (name,
\* strict flag, one bound parameter, one auth service) is set a second time,
\* wherever the two settings are, fails with the error of that second setting
\* and returns nothing, and what a call returns holds, for every field, the
\* value of its first setting, from the defaults as from the call.
C20_SecondSettingFails ==
    lastOp.op \in {"LoadTool", "LoadToolset"} /\ NilOption \notin Range(Given) =>
        /\ Repeats # {} =>
                /\ lastOp.err = AlreadySetErr(Given[FirstRepeat])
                /\ lastOp.made = 0
        /\ Repeats = {} => \A i \in DOMAIN Given : lastOp.err # AlreadySetErr(Given[i])
        /\ \A i \in DOMAIN LastReturned, j \in DOMAIN Given :
                /\ Given[j].k = "bind" => HoldsBinding(LastReturned[i], FirstSetting(Given[j]))
                /\ Given[j].k = "auth" =>
                        /\ Given[j].key \in DOMAIN AuthSources(heap, LastReturned[i])
                        /\ AuthSources(heap, LastReturned[i])[Given[j].key]
                                = FirstSetting(Given[j]).val
        /\ (lastOp.op = "LoadTool" /\ lastOp.err = Nil) =>
                BoundNames(heap, LastReturned[1]) = SuppliedBound

\* A LoadTool whose option binds the parameter that a default option of the
\* client has bound: the call fails and returns nothing.
C20_Witness ==
    /\ lastOp.op = "LoadTool" /\ lastOp.name = "toolA"
    /\ defaultToolOptions = <<WithBindParam("p1", "v1")>>
    /\ lastOp.opts = <<WithBindParam("p1", "v2")>>
    /\ lastOp.err = <<"duplicate parameter binding: parameter is already set", "p1">>
    /\ tools = <<>>

(***************************************************************************)
(* Claims about the pure functions, checked under SpecFn.                  *)
(***************************************************************************)
AuthApplied == lastOp.op = "identifyAuthRequirements"
Available(list) == {s \in Range(list) : s \in lastOp.args.provided}
ListedServices ==
    UNION {Range(lastOp.args.authn[n]) : n \in DOMAIN lastOp.args.authn}
        \cup Range(lastOp.args.authz)

\* C21: identifyAuthRequirements keeps a parameter in the unmet authn map,
\* with its original list of alternatives, iff none of its alternatives is
\* an available provider; the used set is exactly the available services
\* that occur in some authn list or in the authz list.
C21_UnmetAuthnAndUsed ==
    AuthApplied =>
        /\ \A n \in DOMAIN lastOp.args.authn :
              /\ n \in DOMAIN lastOp.out.authn <=> Available(lastOp.args.authn[n]) = {}
              /\ n \in DOMAIN lastOp.out.authn => lastOp.out.authn[n] = lastOp.args.authn[n]
        /\ DOMAIN lastOp.out.authn \subseteq DOMAIN lastOp.args.authn
        /\ lastOp.out.used = ListedServices \cap lastOp.args.provided

\* Two alternatives of which only the second is available: the parameter is
\* met, while another parameter stays unmet.
C21_Witness ==
    /\ AuthApplied
    /\ lastOp.args.authn = ("p1" :> <<"h", "g">>) @@ ("p2" :> <<"zz">>)
    /\ lastOp.args.provided = {"g", "yy"}
    /\ DOMAIN lastOp.out.authn = {"p2"}
    /\ lastOp.out.used = {"g"}

\* C22: identifyAuthRequirements treats the tool-level authz list as one OR
\* group: when at least one listed service is an available provider the
\* unmet authz list is empty, and when none is the unmet authz list is the
\* whole original list in its original order.
C22_AuthzOneOrGroup ==
    AuthApplied =>
        IF Available(lastOp.args.authz) # {}
        THEN lastOp.out.authz = <<>>
        ELSE lastOp.out.authz = lastOp.args.authz

\* Three services listed, none of them available although a provider for
\* another service is.
C22_Witness ==
    /\ AuthApplied
    /\ lastOp.args.authz = <<"zz", "h", "g">>
    /\ lastOp.args.provided = {"yy"}
    /\ lastOp.out.authz = <<"zz", "h", "g">>

\* One of two listed services is available: nothing stays unmet.
C22_WitnessMet ==
    /\ AuthApplied
    /\ lastOp.args.authz = <<"g", "zz">>
    /\ lastOp.args.provided = {"g"}
    /\ lastOp.out.authz = <<>>

TypeApplied == lastOp.op = "validateType"

\* The table: the declared scalar types and the kind of value of each.
TableType == [string |-> "string", integer |-> "int", float |-> "float64", boolean |-> "bool"]

RECURSIVE Matches(_, _)
Matches(p, v) ==
    IF p.type \in DOMAIN TableType THEN v.t = TableType[p.type]
    ELSE /\ p.type = "array"
         /\ v.t = "slice"
         /\ p.items # <<>>
         /\ \A i \in DOMAIN v.elems : Matches(p.items[1], v.elems[i])

RECURSIVE HasNil(_)
HasNil(v) == v.t = "nil" \/ \E i \in DOMAIN v.elems : HasNil(v.elems[i])

\* C23: validateType(p, v) succeeds exactly when v matches p's declared type
\* by the table string, integer, float, boolean, array (an array needs an
\* items schema that every element matches, recursively); it fails for a
\* nil value at any level, for a float given to an integer parameter, for
\* any other declared type, and for an array without items whatever the
\* value.
C23_ValidateTypeTable ==
    TypeApplied =>
        /\ lastOp.out = Nil <=> Matches(lastOp.args.p, lastOp.args.value)
        /\ HasNil(lastOp.args.value) => lastOp.out # Nil
        /\ lastOp.args.p.type = "integer" /\ lastOp.args.value.t = "float64" => lastOp.out # Nil
        /\ lastOp.args.p.type \notin DOMAIN TableType \cup {"array"} => lastOp.out # Nil
        /\ lastOp.args.p.type = "array" /\ lastOp.args.p.items = <<>> => lastOp.out # Nil

\* An array of arrays of strings given a value of that shape.
C23_Witness ==
    /\ TypeApplied
    /\ lastOp.args.p = ParamR("p1", "array", <<>>, FALSE, ItemOf("array", ItemOf("string", <<>>)))
    /\ lastOp.args.value = ArrVal(<<ArrVal(<<StrVal("a")>>), ArrVal(<<StrVal("a"), StrVal("a")>>)>>)
    /\ lastOp.out = Nil

\* The same parameter given a nil two levels down.
C23_WitnessNil ==
    /\ TypeApplied
    /\ lastOp.args.p = ParamR("p1", "array", <<>>, FALSE, ItemOf("array", ItemOf("string", <<>>)))
    /\ lastOp.args.value = ArrVal(<<ArrVal(<<StrVal("a")>>), ArrVal(<<StrVal("a"), NilVal>>)>>)
    /\ lastOp.out # Nil

CallApplied == lastOp.op = "InvokeTool"
TextAt(content, i) ==
    IF i \in DOMAIN content /\ content[i].type = "text" THEN content[i].text ELSE <<>>
TextsInOrder(content) == TextAt(content, 1) \o TextAt(content, 2) \o TextAt(content, 3)
NullLiteral == <<"n", "u", "l", "l">>

\* C24: InvokeTool on a result not flagged as an error returns the texts of
\* exactly the content blocks of kind text, concatenated in order, every
\* other kind skipped; when that concatenation is empty it returns the
\* literal string null.
C24_TextBlocksConcatenated ==
    CallApplied /\ ~lastOp.args.isError =>
        /\ lastOp.out.err = Nil
        /\ lastOp.out.val = IF TextsInOrder(lastOp.args.content) = <<>> THEN NullLiteral
                            ELSE TextsInOrder(lastOp.args.content)

\* text / image / text with "A ", "b", "B" gives "A B".
C24_Witness ==
    /\ CallApplied /\ ~lastOp.args.isError
    /\ lastOp.args.content = <<Text(<<"A", " ">>), Image(<<"b">>), Text(<<"B">>)>>
    /\ lastOp.out.val = <<"A", " ", "B">>

\* Only an empty text and an image: null.
C24_WitnessNull ==
    /\ CallApplied /\ ~lastOp.args.isError
    /\ lastOp.args.content = <<Text(<<>>), Image(<<"b">>)>>
    /\ lastOp.out.val = NullLiteral

ListApplied == lastOp.op = "ListTools"

\* C25: ListTools fails and returns no manifest whenever a tool definition
\* of the server's list has an empty name, wherever it sits; the valid
\* tools listed before it are not returned.
C25_EmptyNameFailsList ==
    ListApplied /\ (\E i \in DOMAIN lastOp.args : lastOp.args[i] = "") =>
        /\ lastOp.out.err # Nil
        /\ lastOp.out.val = <<>>

\* The empty name comes after a valid definition and before another.
C25_Witness ==
    /\ ListApplied
    /\ lastOp.args = <<"toolA", "", "toolB">>
    /\ lastOp.out.err # Nil
    /\ lastOp.out.val = <<>>

RestApplied == lastOp.op = "LoadManifest"
\* A response arrived: the header tokens resolved and the exchange succeeded.
Responded == RestApplied /\ ~lastOp.args.tokenFail /\ ~lastOp.args.netFail
Is2xx(status) == status >= 200 /\ status < 300
Decodable(body) == decodeManifest(body).err = Nil

\* C26: REST GetTool and ListTools: a response with a non-2xx status yields
\* a failure whose message contains the status and the response body, and a
\* response with a 2xx status and a JSON-decodable body yields the decoded
\* manifest.
C26_ManifestByStatus ==
    Responded =>
        /\ ~Is2xx(lastOp.args.status) =>
              /\ lastOp.out.err # Nil
              /\ StatusText[lastOp.args.status] \in Range(lastOp.out.err)
              /\ lastOp.args.body \in Range(lastOp.out.err)
        /\ Is2xx(lastOp.args.status) /\ Decodable(lastOp.args.body) /\ ~lastOp.args.readFail =>
              /\ lastOp.out.err = Nil
              /\ lastOp.out.val = decodeManifest(lastOp.args.body).val

(***************************************************************************)
(* More claims about the transport, checked under Spec.                    *)
(***************************************************************************)
\* The initialize result was decoded, and what each check finds in it.
ResultDecoded == initResult # NoResult
VersionBad == initResult.pv # ProtocolVersion
ToolsMissing == ~initResult.tools
SessionMissing == sessionBearing /\ initResult.sid = ""
CheckFailed == ResultDecoded /\ (VersionBad \/ ToolsMissing \/ SessionMissing)

\* C27: the handshake checks run in the order protocol version, tools
\* capability, session identifier; the first failing check determines the
\* failure, and the initialized notification is sent only after all checks
\* pass, so a handshake that fails a check has sent exactly one request
\* (initialize).
C27_ChecksInOrderBeforeNotification ==
    /\ CheckFailed =>
          /\ initErr = IF VersionBad THEN Err("MCP version mismatch")
                       ELSE IF ToolsMissing
                       THEN Err("server does not support the 'tools' capability")
                       ELSE Err("server did not return a Mcp-Session-Id during initialization")
          /\ Len(wire) = 1
          /\ wire[1].method = "initialize"
    /\ NumSent("notifications/initialized") > 0 => ResultDecoded /\ ~CheckFailed

\* All three checks would fail: the version one is reported, after the one
\* request, and the handshake is over.
C27_Witness ==
    /\ sessionBearing /\ VersionBad /\ ToolsMissing /\ initResult.sid = "" /\ ResultDecoded
    /\ initErr = Err("MCP version mismatch")
    /\ initOnce = "done"
    /\ Len(wire) = 1

\* The version is right, the capability and the session identifier are not.
C27_WitnessCapability ==
    /\ sessionBearing /\ ~VersionBad /\ ToolsMissing /\ initResult.sid = "" /\ ResultDecoded
    /\ initErr = Err("server does not support the 'tools' capability")
    /\ initOnce = "done"

(***************************************************************************)
(* More claims about Invoke, checked under SpecInvoke.                     *)
(***************************************************************************)
\* The last operation is an Invoke that passed the permission step and the
\* validation of its args; its providers, and those that failed in it.
PassedValidation ==
    /\ lastOp.op = "Invoke"
    /\ ~IsPermissionErr(lastOp.err) /\ ~IsUnexpectedErr(lastOp.err) /\ ~IsTypeErr(lastOp.err)
Providers == funcNames(heap, Invoked)
FailedProviders == {n \in Providers : lastOp.ret[n].err # Nil}

\* The claim as stated: every Invoke that passes validation calls every
\* provider exactly once.
C28_EveryProviderCalledOnce ==
    PassedValidation => \A n \in Providers : lastOp.called[n] = 1

\* C28 (amended): an Invoke that passes validation calls each provider at
\* most once, and each exactly once when none fails; the payload of its
\* request then holds the value each provider returned in this Invoke,
\* never that of an earlier one; when a provider fails, Invoke sends no
\* request and fails with an error naming a failing parameter whose
\* provider was called once.
C28_ProvidersCalledUntilFailure ==
    PassedValidation =>
        /\ \A n \in Providers : lastOp.called[n] <= 1
        /\ FailedProviders = {} =>
              /\ \A n \in Providers : lastOp.called[n] = 1
              /\ ~IsResolveErr(lastOp.err)
              /\ \A n \in Providers :
                    lastOp.reqs # <<>> => lastOp.reqs[1].payload[n] = lastOp.ret[n].val
        /\ FailedProviders # {} =>
              /\ lastOp.reqs = <<>>
              /\ \E n \in FailedProviders :
                    /\ lastOp.called[n] = 1
                    /\ lastOp.err = Wrap("tool payload processing failed",
                                         ResolveErr(n, lastOp.ret[n].err))

\* A second Invoke of a descriptor with two providers, whose providers
\* return something else than in the first: the request carries the new
\* values.
C28_Witness ==
    /\ PassedValidation /\ calls = 2 /\ Len(wire) = 2
    /\ Providers = {"p1", "p4"}
    /\ wire[1].payload["p4"] = StrVal("r1") /\ wire[1].payload["p1"] = StrVal("r1")
    /\ lastOp.reqs[1].payload["p4"] = StrVal("r2") /\ lastOp.reqs[1].payload["p1"] = StrVal("r2")
    /\ \A n \in Providers : lastOp.called[n] = 1

\* One of two providers fails and the other was not reached.
C28_WitnessFailure ==
    /\ PassedValidation /\ Providers = {"p1", "p4"}
    /\ FailedProviders = {"p4"}
    /\ lastOp.called["p1"] = 0 /\ lastOp.called["p4"] = 1
    /\ IsResolveErr(lastOp.err)

(***************************************************************************)
(* More claims about LoadTool and LoadToolset, checked under SpecLoad.     *)
(***************************************************************************)
\* The positions of Given at which the configuration fails: a nil option or
\* a second setting of a field; the first of them and its failure.
Stops == {i \in DOMAIN Given : Given[i] = NilOption} \cup Repeats
FirstStop == CHOOSE i \in Stops : \A j \in Stops : i <= j
ConfigErr == IF Given[FirstStop] = NilOption THEN NilOptionErr ELSE AlreadySetErr(Given[FirstStop])

\* C29: LoadTool and LoadToolset apply all options before fetching: a call
\* with an option that is nil or fails returns that configuration failure,
\* and nothing else, without having sent a manifest request.
C29_NoFetchOnOptionFailure ==
    [][(lastOp'.op \in {"LoadTool", "LoadToolset"} /\ Stops' # {}) =>
            /\ wire' = wire
            /\ lastOp'.err = ConfigErr'
            /\ lastOp'.made = 0]_vars

\* A LoadToolset whose second option is nil: no request, although the
\* transport was ready to answer.
C29_Witness ==
    /\ lastOp.op = "LoadToolset"
    /\ lastOp.opts = <<WithAuthTokenSource("h", "tok1"), NilOption, WithAuthTokenSource("h", "tok2")>>
    /\ lastOp.err = NilOptionErr
    /\ wire = <<>> /\ calls = 1

\* A LoadTool whose option repeats a default: no request either.
C29_WitnessDuplicate ==
    /\ lastOp.op = "LoadTool" /\ Repeats # {} /\ NilOption \notin Range(Given)
    /\ defaultToolOptions # <<>> /\ lastOp.opts # <<>>
    /\ lastOp.err = AlreadySetErr(Given[FirstStop])
    /\ wire = <<>> /\ calls = 1

\* A call whose options all apply sends its one GET.
C29_WitnessFetch ==
    /\ lastOp.op = "LoadTool" /\ Stops = {} /\ lastOp.err = Nil
    /\ wire = <<ManifestRequest(<<"api/tool", lastOp.name>>)>>

(***************************************************************************)
(* More claims about the pure functions, checked under SpecFn.             *)
(***************************************************************************)
OptionsApplied == lastOp.op = "applyOptions"
GivenOpts == lastOp.args.opts
Before == lastOp.args.cfg

\* The configuration holds the field the option sets.
FieldSet(cfg, o) ==
    IF o.k = "name" THEN cfg.nameSet
    ELSE IF o.k = "strict" THEN cfg.strictSet
    ELSE IF o.k = "bind" THEN o.key \in DOMAIN cfg.BoundParams
    ELSE o.key \in DOMAIN cfg.AuthTokenSources

\* The configuration holds the value the option gives to its field.
TookEffect(cfg, o) ==
    IF o.k = "name" THEN cfg.nameSet /\ cfg.Name = o.val
    ELSE IF o.k = "strict" THEN cfg.strictSet /\ cfg.Strict = (o.val = "true")
    ELSE IF o.k = "bind" THEN o.key \in DOMAIN cfg.BoundParams /\ cfg.BoundParams[o.key] = o.val
    ELSE o.key \in DOMAIN cfg.AuthTokenSources /\ cfg.AuthTokenSources[o.key] = o.val

\* The positions at which the list is nil or sets a field that the starting
\* configuration or an earlier option has set; the first of them.
OptionStops ==
    {i \in DOMAIN GivenOpts :
        \/ GivenOpts[i] = NilOption
        \/ FieldSet(Before, GivenOpts[i])
        \/ \E j \in 1..(i - 1) : SameField(GivenOpts[j], GivenOpts[i])}
StopAt ==
    IF OptionStops = {} THEN Len(GivenOpts) + 1
    ELSE CHOOSE i \in OptionStops : \A j \in OptionStops : i <= j
Fields == {WithName(""), WithStrict("")} \cup
          {WithBindParam(n, "") : n \in {"p1", "p2"}} \cup {WithAuthTokenSource("g", "")}

\* C30: applying a list of options to a configuration stops at the first nil
\* or failing option: the options before it have taken effect in the
\* configuration, the options after it have not been applied, and that
\* failure is returned.
C30_StopsAtFirstFailure ==
    OptionsApplied =>
        /\ \A i \in 1..(StopAt - 1) : TookEffect(lastOp.out.cfg, GivenOpts[i])
        /\ \A f \in Fields :
              FieldSet(lastOp.out.cfg, f) <=>
                  \/ FieldSet(Before, f)
                  \/ \E i \in 1..(StopAt - 1) : SameField(GivenOpts[i], f)
        /\ Before.nameSet => lastOp.out.cfg.Name = Before.Name
        /\ lastOp.out.err =
              IF OptionStops = {} THEN Nil
              ELSE IF GivenOpts[StopAt] = NilOption THEN NilOptionErr
              ELSE AlreadySetErr(GivenOpts[StopAt])

\* The second list of TestApplyOptions, with one more option: the name is
\* set, the nil option stops the list, the strict flag and the binding after
\* it are not set.
C30_Witness ==
    /\ OptionsApplied /\ Before = EmptyConfig
    /\ GivenOpts = <<WithName("MyTool"), NilOption, WithStrict("true"), WithBindParam("p1", "v1")>>
    /\ lastOp.out.err = NilOptionErr
    /\ lastOp.out.cfg.Name = "MyTool"
    /\ ~lastOp.out.cfg.strictSet /\ lastOp.out.cfg.BoundParams = <<>>

\* The first list: the second WithName fails, the binding before it is set,
\* the strict flag after it is not.
C30_WitnessFailing ==
    /\ OptionsApplied /\ Before = EmptyConfig
    /\ GivenOpts = <<WithName("MyTool"), WithBindParam("p1", "v1"), WithName("AnotherName"),
                     WithStrict("true")>>
    /\ lastOp.out.err = Err("name is already set and cannot be overridden")
    /\ lastOp.out.cfg.Name = "MyTool" /\ "p1" \in DOMAIN lastOp.out.cfg.BoundParams
    /\ ~lastOp.out.cfg.strictSet


(***************************************************************************)
(* Claims about the operations of the MCP transport, checked under Spec.   *)
(***************************************************************************)
GetToolReturned == lastReturn.op = "GetTool"
ListFailed == lastReturn.result = NoList \/ "" \in Range(lastReturn.result)
ListedNames == Range(lastReturn.result)

\* C31: GetTool sends a tools/list request to the default toolset (the base
\* URL with no toolset name appended); when the list succeeds and holds the
\* requested name it returns a manifest with exactly that tool and the server
\* version recorded at handshake; it fails when the name is absent from the
\* list and when the list operation fails.
C31_GetToolFromDefaultList ==
    /\ \A c \in DOMAIN callers :
          callers[c].op = "GetTool" /\ callers[c].pc = "rpcWait"
              => /\ wire[callers[c].req].method = "tools/list"
                 /\ wire[callers[c].req].url = ""
    /\ GetToolReturned =>
          IF ListFailed THEN lastReturn.err # Nil
          ELSE IF lastReturn.arg \notin ListedNames THEN lastReturn.err # Nil
          ELSE /\ lastReturn.err = Nil
               /\ lastReturn.val = <<ServerVersion, {lastReturn.arg}>>

C31_Witness ==
    /\ GetToolReturned
    /\ lastReturn.err = Nil
    /\ lastReturn.result = <<"toolB", "toolA">>
    /\ lastReturn.val[1] = "1.0.0"

C31_WitnessAbsent ==
    /\ GetToolReturned
    /\ ~ListFailed
    /\ lastReturn.arg \notin ListedNames
    /\ lastReturn.err = Err("tool not found")


\* A caller of the MCP transport whose next step resolves its headers, one of
\* which fails; an HTTP transport call that got as far as resolving them.
HeaderOps == {"GetTool", "ListTools", "InvokeTool"}
AtFailingHeaders(c) ==
    /\ callers[c].pc = "ensured"
    /\ callers[c].op \in HeaderOps
    /\ callers[c].err = Nil
    /\ callers[c].hdr = "fail"
NamesHeader(e) == e # Nil /\ HeaderName \in Range(e)
RestFailingHeaders(o) == o.op = "rest" /\ o.hdr = "fail" /\ o.pre = "ok"

\* C32: when a header token provider fails (the call has reached the
\* resolution of its headers), GetTool, ListTools and InvokeTool of the MCP
\* transport and of the HTTP transport return a failure that names the
\* header, and the call sends no request of its own.
C32_HeaderFailureSendsNothing ==
    [][/\ \A c \in Callers :
            AtFailingHeaders(c) /\ callers'[c] # callers[c]
                => /\ callers'[c].pc = "idle"
                   /\ lastReturn'.op = callers[c].op
                   /\ NamesHeader(lastReturn'.err)
                   /\ wire' = wire
       /\ calls' = calls + 1 /\ RestFailingHeaders(lastOp')
                => /\ NamesHeader(lastOp'.out.err)
                   /\ lastOp'.out.reqs = <<>>]_vars

C32_Witness ==
    /\ lastReturn.op = "InvokeTool" /\ NamesHeader(lastReturn.err)
    /\ \A i \in DOMAIN wire : wire[i].method # "tools/call"
    /\ RestFailingHeaders(lastOp) /\ lastOp.fn = "GetTool"
    /\ NamesHeader(lastOp.out.err) /\ lastOp.out.reqs = <<>>


(***************************************************************************)
(* Claims about ConvertToolDefinition, checked under SpecFn.               *)
(***************************************************************************)
ConvertApplied == lastOp.op = "ConvertToolDefinition"
Field(obj, key) == IF obj.j = "object" /\ key \in DOMAIN obj.fields THEN obj.fields[key] ELSE JAbsent
SchemaOf(d) == d["inputSchema"]
MetaOf(d) == d["_meta"]
ObjectProperties(d) ==
    {n \in DOMAIN Field(SchemaOf(d), "properties").fields :
        Field(SchemaOf(d), "properties").fields[n].j = "object"}
\* The service names of a JSON list (its string entries, in order); none when
\* the value is absent or no list.
Listed(v) ==
    IF v.j # "list" THEN <<>>
    ELSE LET strs == SelectSeq(v.elems, LAMBDA e : e.j = "string")
         IN  [i \in DOMAIN strs |-> strs[i].s]
AllStrings(v) == v.j = "list" /\ \A i \in DOMAIN v.elems : v.elems[i].j = "string"
Texts(v) == [i \in DOMAIN v.elems |-> v.elems[i].s]
RequiredNames(d) == Range(Listed(Field(SchemaOf(d), "required")))
ParamsOut == lastOp.out.parameters

\* C33: ConvertToolDefinition yields exactly one parameter per property of
\* the input schema whose definition is an object; a parameter is required
\* iff its name is in the schema's required list; its authSources is the list
\* of services found under its name in _meta toolbox/authParam, none when
\* there is no such list; the tool's authRequired is the list of services of
\* _meta toolbox/authInvoke, in the same order.
C33_OneParameterPerObjectProperty ==
    ConvertApplied =>
        /\ Len(ParamsOut) = Cardinality(ObjectProperties(lastOp.args))
        /\ {ParamsOut[i].name : i \in DOMAIN ParamsOut} = ObjectProperties(lastOp.args)
        /\ \A i \in DOMAIN ParamsOut :
              /\ ParamsOut[i].required <=> ParamsOut[i].name \in RequiredNames(lastOp.args)
              /\ ParamsOut[i].authSources
                    = Listed(Field(Field(MetaOf(lastOp.args), "toolbox/authParam"),
                                   ParamsOut[i].name))
              /\ AllStrings(Field(Field(MetaOf(lastOp.args), "toolbox/authParam"),
                                  ParamsOut[i].name))
                    => ParamsOut[i].authSources
                         = Texts(Field(Field(MetaOf(lastOp.args), "toolbox/authParam"),
                                       ParamsOut[i].name))
        /\ lastOp.out.authRequired = Listed(Field(MetaOf(lastOp.args), "toolbox/authInvoke"))
        /\ AllStrings(Field(MetaOf(lastOp.args), "toolbox/authInvoke"))
              => lastOp.out.authRequired = Texts(Field(MetaOf(lastOp.args), "toolbox/authInvoke"))

\* Two object properties and one that is no object; p2 is required and
\* auth-gated, p1 is neither; the tool requires h then g.
C33_Witness ==
    /\ ConvertApplied
    /\ DOMAIN PropertiesOf(lastOp.args) = {"p1", "p2", "p3"}
    /\ Len(ParamsOut) = 2
    /\ \E i, k \in DOMAIN ParamsOut :
          /\ ParamsOut[i].name = "p2" /\ ParamsOut[i].required
          /\ ParamsOut[i].authSources = <<"g", "h">>
          /\ ParamsOut[k].name = "p1" /\ ~ParamsOut[k].required
          /\ ParamsOut[k].authSources = <<>>
    /\ lastOp.out.authRequired = <<"h", "g">>


\* A caller that reached Once.Do while the handshake was in flight.
Waiting(c) == callers[c].pc = "ensure" /\ callers[c].inflight
Moves(c) == callers'[c] # callers[c]

\* C34: a call that arrives while the handshake is in flight stays blocked
\* until the handshake has finished and then returns the handshake's outcome,
\* whether its own context is live or cancelled; the handshake runs with the
\* context of the caller that triggered it: it fails with that caller's
\* context error when that context is cancelled, and otherwise sends
\* initialize, whatever the contexts of the callers that wait.
C34_WaitersGetHandshakeOutcome ==
    [][\A c \in Callers :
          /\ Waiting(c) /\ Moves(c)
                => /\ initOnce = "done"
                   /\ callers'[c].pc = "ensured"
                   /\ callers'[c].err = initErr
                   /\ wire' = wire
          /\ callers[c].pc = "ensured" /\ callers[c].inflight
               /\ callers[c].op = "EnsureInitialized" /\ Moves(c)
                => /\ callers'[c].pc = "idle"
                   /\ lastReturn'.err = initErr
          /\ callers[c].pc = "initSend" /\ Moves(c)
                => IF callers[c].ctx = "cancelled"
                   THEN initErr' = ctxErr /\ initOnce' = "done" /\ wire' = wire
                   ELSE /\ Len(wire') = Len(wire) + 1
                        /\ wire'[Len(wire')].method = "initialize"
                        /\ initOnce' = "running"]_vars

\* A caller with a cancelled context arrived in flight and has got the
\* success of a handshake run by a caller with a live context.
C34_Witness ==
    /\ initOnce = "done" /\ initErr = Nil
    /\ \E c, d \in Callers :
          /\ callers[c].pc = "ensured" /\ callers[c].op = "EnsureInitialized"
          /\ callers[c].inflight /\ callers[c].ctx = "cancelled" /\ callers[c].err = Nil
          /\ callers[d].pc = "ensured" /\ ~callers[d].inflight /\ callers[d].ctx = "live"


(***************************************************************************)
(* Liveness of EnsureInitialized, checked under SpecLive: the steps of     *)
(* sync.Once (a caller entering Do, a blocked caller released by the       *)
(* mutex when the function has returned) are taken when they stay          *)
(* possible; nothing is assumed about the HTTP exchanges of the hook.      *)
(***************************************************************************)
SpecLive ==
    /\ Init
    /\ [][Next]_vars
    /\ \A c \in Callers : WF_vars(OnceDoRun(c)) /\ WF_vars(OnceDoReturn(c))

Blocked(c) == callers[c].pc = "ensure"

\* C35: once the single handshake execution has terminated (with success or
\* failure), every caller that is in EnsureInitialized's Once.Do, whether it
\* arrived before or after, eventually gets out of it: no caller stays
\* blocked once the outcome is known.
C35_NoCallerStaysBlocked ==
    \A c \in Callers : (Blocked(c) /\ initOnce = "done") ~> ~Blocked(c)

\* A caller blocked in Do at the moment the handshake has failed.
C35_Witness ==
    /\ initOnce = "done" /\ initErr # Nil
    /\ \E c \in Callers : Blocked(c) /\ callers[c].inflight


(***************************************************************************)
(* Claims about loading, checked under SpecLoad.                           *)
(***************************************************************************)
\* The LoadToolset call recorded in lastOp, replayed on a fresh heap with the
\* tools of the manifest visited in another order, and the descriptors the
\* call returned (the last lastOp.made ones).
ToolsetLoaded == lastOp.op = "LoadToolset" /\ Fetched
Replay(order, pickOf) == LoadToolsetResult(<<<<>>>>, TRUE, lastOp.opts, order, pickOf)
Descriptors(h, made) == {View(h, made[i]) : i \in DOMAIN made}

\* C36: whether LoadToolset succeeds, and on success the set of descriptors
\* it returns, is the same for every order in which the tools of the
\* manifest are visited, in strict and in lenient mode.
C36_ToolsetOutcomeOrderFree ==
    ToolsetLoaded =>
        \A order \in Perms(ToolNames) : \A pickOf \in unknownPicks(lastOp.opts) :
            /\ (Replay(order, pickOf).err = Nil) <=> (lastOp.err = Nil)
            /\ lastOp.err = Nil
                  => Descriptors(Replay(order, pickOf).heap, Replay(order, pickOf).tools)
                        = Descriptors(heap, LastReturned)

\* A strict load that fails on the tool visited first with an error that
\* another order would not give (the other tool fails in its place).
C36_Witness ==
    /\ ToolsetLoaded
    /\ lastOp.err # Nil
    /\ \E order \in Perms(ToolNames) : \E pickOf \in unknownPicks(lastOp.opts) :
          Replay(order, pickOf).err \notin {Nil, lastOp.err}

C36_WitnessSuccess ==
    /\ ToolsetLoaded
    /\ lastOp.err = Nil
    /\ Len(LastReturned) = 2
    /\ applyCallOptions(EmptyConfig, allOptions(defaultToolOptions, lastOp.opts)).cfg.Strict # EmptyConfig.Strict


\* The bound names given to the last LoadTool that are parameters of the tool
\* with authSources in its schema.
GatedNames(name) ==
    {Manifest[name].parameters[i].name :
        i \in {j \in DOMAIN Manifest[name].parameters :
                  Manifest[name].parameters[j].authSources # <<>>}}
GatedBindings ==
    IF lastOp.name \in ToolNames THEN SuppliedBound \cap GatedNames(lastOp.name) ELSE {}
LoadToolOnGated ==
    lastOp.op = "LoadTool" /\ Fetched /\ lastOp.name \in ToolNames /\ GatedBindings # {}
AbsentBindings == SuppliedBound \ {Manifest[lastOp.name].parameters[i].name :
                                     i \in DOMAIN Manifest[lastOp.name].parameters}
IsUnusedBoundErr(e, names) ==
    /\ Len(e) = 5
    /\ e[1] = "validation failed" /\ e[4] = "unused bound parameters"
    /\ names \subseteq e[5]

\* The claim as stated: a LoadTool given a binding for a parameter that
\* declares authSources returns no descriptor and fails with an
\* unused-bound-parameter failure.
C37_GatedBindingIsUnused ==
    LoadToolOnGated =>
        /\ lastOp.made = 0
        /\ IsUnusedBoundErr(lastOp.err, GatedBindings)

\* C37 (amended): a LoadTool given a binding for a parameter that declares
\* authSources never binds it and returns no descriptor; it fails with an
\* unused-bound-parameter failure that lists the name, unless another bound
\* name is no parameter of the tool, in which case it fails earlier with the
\* failure that names one absent parameter.
C37_GatedBindingFailsLoadTool ==
    LoadToolOnGated =>
        /\ lastOp.made = 0
        /\ IF AbsentBindings = {}
           THEN IsUnusedBoundErr(lastOp.err, GatedBindings)
           ELSE \E n \in AbsentBindings : lastOp.err = UnknownLoadErr(n)

\* The binding of the auth-gated p2 is unused although the service that gates
\* p2 is supplied.
C37_Witness ==
    /\ LoadToolOnGated /\ lastOp.name = "toolA" /\ defaultToolOptions = <<>>
    /\ lastOp.opts = <<WithBindParam("p2", "v1"), WithAuthTokenSource("g", "tok2")>>
    /\ lastOp.err = UnusedErr({}, {"p2"})
    /\ tools = <<>>

C37_WitnessAbsent ==
    /\ LoadToolOnGated /\ AbsentBindings # {}
    /\ lastOp.err = UnknownLoadErr("zz")


HandshakeMethods == {"initialize", "notifications/initialized"}
CallMethods == {"tools/list", "tools/call"}
HandshakeSucceeded == initOnce = "done" /\ initErr = Nil

\* C38: the initialize request and the initialized notification never carry
\* header tokens of the caller; a request that carries them is a tools/list
\* or a tools/call, sent after the handshake has succeeded, and a header
\* provider is resolved (here: found failing) only then.
C38_NoHeadersInHandshake ==
    /\ \A i \in DOMAIN wire :
          /\ wire[i].method \in HandshakeMethods => ~wire[i].hdr
          /\ wire[i].hdr => wire[i].method \in CallMethods /\ HandshakeSucceeded
          /\ wire[i].method \in CallMethods => HandshakeSucceeded
    /\ NamesHeader(lastReturn.err) => HandshakeSucceeded

\* The call that ran the handshake was given a header provider: initialize
\* and the notification went out without the token, its tools/list with it.
C38_Witness ==
    /\ Len(wire) = 3
    /\ wire[1].method = "initialize" /\ ~wire[1].hdr
    /\ wire[2].method = "notifications/initialized" /\ ~wire[2].hdr
    /\ wire[3].method = "tools/list" /\ wire[3].hdr
    /\ calls = 1


(***************************************************************************)
(* Claims about descriptors of one LoadToolset call, checked under         *)
(* SpecTool.                                                               *)
(***************************************************************************)
\* Two loaded descriptors that hold the same auth-source collection (the
\* descriptors of one LoadToolset call do).
Siblings(t, u) ==
    /\ t # u
    /\ tools[t].parent = 0 /\ tools[u].parent = 0
    /\ tools[t].authTokenSources = tools[u].authTokenSources
NewTools == (Len(tools) + 1)..Len(tools')

\* C39: the descriptors built by one LoadToolset call hold one and the same
\* auth-source collection, that of the call's configuration; a ToolFrom on
\* one of them, successful or not, leaves the auth token sources, the bound
\* parameters and the unbound list of every sibling as they were.
C39_ToolFromLeavesSiblings ==
    [][/\ lastOp'.op = "LoadToolset" /\ lastOp'.err = Nil =>
            \A i, j \in NewTools :
                tools'[i].authTokenSources = tools'[j].authTokenSources
       /\ lastOp'.op = "ToolFrom" =>
            \A u \in DOMAIN tools :
                Siblings(lastOp'.tool, u) =>
                    /\ AuthSources(heap', tools'[u]) = AuthSources(heap, tools[u])
                    /\ View(heap', tools'[u]).boundParams = View(heap, tools[u]).boundParams
                    /\ Unbound(heap', tools'[u]) = Unbound(heap, tools[u])
                    /\ tools'[u].authTokenSources = tools[lastOp'.tool].authTokenSources
      ]_vars

\* A ToolFrom on one of two descriptors that share a non-empty auth-source
\* collection gave the child a source for h and a binding; the sibling has
\* neither.
C39_Witness ==
    /\ lastOp.op = "ToolFrom" /\ lastOp.err = Nil
    /\ \E u \in DOMAIN tools :
          /\ Siblings(lastOp.tool, u)
          /\ tools[u].authTokenSources # 0
          /\ DOMAIN AuthSources(heap, tools[u]) = {"g"}
          /\ "h" \in DOMAIN AuthSources(heap, tools[Len(tools)])
          /\ tools[Len(tools)].parent = lastOp.tool


\* ToolFrom applied to the descriptor t of the state with one binding, to the
\* result of such a derivation with a second binding, and to t with both
\* bindings at once, the map of the two being walked in the given order.
Bindings ==
    {o \in Options : o.k = "bind"} \cup {WithBindParam("p4", "func"), WithBindParam("p4", "v1")}
DeriveOne(h, tt, o) == ToolFromResult(h, tt, 0, <<o>>, <<>>, <<o.key>>)
DeriveThen(r, o) == DeriveOne(r.heap, r.tool, o)
DeriveBoth(h, tt, o1, o2, order) == ToolFromResult(h, tt, 0, <<o1, o2>>, <<>>, order)
Shape(r) ==
    [err |-> r.err,
     parameters |-> IF r.err = Nil THEN Unbound(r.heap, r.tool) ELSE <<>>,
     boundParams |-> IF r.err = Nil THEN View(r.heap, r.tool).boundParams ELSE <<>>]
DistinctUnbound(t, o1, o2) ==
    /\ o1.key # o2.key
    /\ {o1.key, o2.key} \subseteq UnboundNames(heap, tools[t])

\* C40: for every descriptor and every two bindings for distinct names of its
\* unbound list, the two ToolFrom calls in either order and the single
\* ToolFrom call with both (whichever binding it meets first) all succeed and
\* give descriptors with the same unbound parameter list and the same bound
\* parameters.
C40_BindingOrderIrrelevant ==
    \A t \in DOMAIN tools : \A o1, o2 \in Bindings :
        DistinctUnbound(t, o1, o2) =>
            /\ Shape(DeriveThen(DeriveOne(heap, tools[t], o1), o2)).err = Nil
            /\ Shape(DeriveThen(DeriveOne(heap, tools[t], o1), o2))
                  = Shape(DeriveThen(DeriveOne(heap, tools[t], o2), o1))
            /\ \A order \in Perms({o1.key, o2.key}) :
                  Shape(DeriveBoth(heap, tools[t], o1, o2, order))
                     = Shape(DeriveThen(DeriveOne(heap, tools[t], o1), o2))

\* A descriptor obtained by two ToolFrom calls, p1 then p3, from a loaded
\* descriptor: it has the bound parameters that the other order gives.
C40_Witness ==
    \E t \in DOMAIN tools :
        /\ tools[t].parent # 0 /\ tools[tools[t].parent].parent # 0
        /\ lastOp.op = "ToolFrom" /\ lastOp.err = Nil /\ Len(tools) = t
        /\ lastOp.opts = <<WithBindParam("p3", "slice")>>
        /\ BoundNames(heap, tools[t]) = {"p1", "p3"}
        /\ BoundNames(heap, tools[tools[t].parent]) = {"p1"}
        /\ DistinctUnbound(tools[tools[t].parent].parent,
                           WithBindParam("p1", "v1"), WithBindParam("p3", "slice"))
        /\ View(heap, tools[t]).boundParams
              = Shape(DeriveThen(DeriveOne(heap, tools[tools[tools[t].parent].parent],
                                           WithBindParam("p3", "slice")),
                                 WithBindParam("p1", "v1"))).boundParams
        /\ Unbound(heap, tools[t]) = <<>>


====
